---------------------------- MODULE Spec2Model ----------------------------
(***************************************************************************)
(* The Gridder of radiotools (src/radiotools/gridding/gridding.py): the     *)
(* alternate constructor from_fits, the attribute computation               *)
(* _create_attributes (Hermitian mirroring, bin edges, 2D histograms,       *)
(* per-cell averaging, shifted inverse FFT) and the plotting methods.       *)
(*                                                                         *)
(* Numbers.  The code computes in floating point; the model computes the    *)
(* same expressions exactly.  A real number x is held as the pair <<p, q>>  *)
(* of integers with x = (p + q * sqrt(3)) / Q: Q is a multiple of every     *)
(* divisor the computation meets (the sample counts of a cell, the 2 of the *)
(* roots of unity cos/sin values k/2 and sqrt(3)/2, the 1/N of each         *)
(* transform axis), so every division is exact and equal numbers have equal *)
(* pairs.  The sqrt(3) part is what the roots of unity of image size 3      *)
(* need.  Baseline coordinates are integers: the wavelength unit is chosen  *)
(* so that the cell sizes 1/fov of the model are even integers.             *)
(***************************************************************************)
EXTENDS Integers, Sequences, FiniteSets, TLC

(* ------------------------------ bounds -------------------------------- *)
\* most samples (rows) in a measurement file
MaxSamples == 2
\* most rows of the files that the plotting specification starts from
MaxPlotted == 1
\* raw baseline coordinates (the UU/VV columns) range over -MaxCoord..MaxCoord
MaxCoord == 1
\* real and imaginary parts of a visibility range over 0..MaxVal
MaxVal == 1

\* image sizes handed to the constructor (divisors of 12: see Cos12)
ImgSizes == {1, 2, 3, 4}
\* fields of view in radians (what from_fits makes of its fov argument),
\* each a fraction <<numerator, denominator>>: 1/2 and 1/4
Fovs == {<<1, 2>>, <<1, 4>>}
\* observing frequencies found in the header (CRVAL4)
Freqs == {1, 2}
\* speed of light (astropy.constants.c), m/s
c == 299792458

(* ----------------------------- arithmetic ----------------------------- *)
Abs(x) == IF x < 0 THEN -x ELSE x

RECURSIVE GCD(_, _)
GCD(a, b) == IF b = 0 THEN a ELSE GCD(b, a % b)

RECURSIVE LcmTo(_)
\* the least common multiple of 1..n
LcmTo(n) == IF n <= 1 THEN 1 ELSE (n * LcmTo(n - 1)) \div GCD(n, LcmTo(n - 1))

\* the denominator of all numbers: 576 = lcm of (2N)^2 over the image sizes,
\* the other factor is a multiple of every possible sample count of a cell
Q == 576 * LcmTo(2 * MaxSamples)

\* the integer n
Num(n) == <<n * Q, 0>>
Zero == Num(0)
\* the result of 0/0 (nan), which every operation passes on
NaN == <<>>
RAdd(x, y) == <<x[1] + y[1], x[2] + y[2]>>
RNeg(x) == <<-x[1], -x[2]>>
RSub(x, y) == <<x[1] - y[1], x[2] - y[2]>>
\* x * (w[1] + w[2] * sqrt(3))
RMul(x, w) == <<x[1] * w[1] + 3 * x[2] * w[2], x[1] * w[2] + x[2] * w[1]>>
RDiv(x, n) == <<x[1] \div n, x[2] \div n>>

\* complex numbers
Cplx(re, im) == [re |-> re, im |-> im]
CAdd(a, b) == Cplx(RAdd(a.re, b.re), RAdd(a.im, b.im))
\* a * (w.re + i * w.im), for w with integer pairs as parts
CMul(a, w) == Cplx(RSub(RMul(a.re, w.re), RMul(a.im, w.im)),
                   RAdd(RMul(a.re, w.im), RMul(a.im, w.re)))
Conj(a) == Cplx(a.re, IF a.im = NaN THEN NaN ELSE RNeg(a.im))

RECURSIVE SumTo(_, _)
\* f[0] + ... + f[n-1] for complex f
SumTo(f, n) == IF n = 0 THEN Cplx(<<0, 0>>, <<0, 0>>) ELSE CAdd(SumTo(f, n - 1), f[n - 1])

(* ------------------------------- state -------------------------------- *)
VARIABLES
    fits,             \* the FITS file at fits_path: its UU and VV columns,
                      \* the Stokes-I sums of its DATA rows, its CRVAL4;
                      \* NoFile when there is no file at fits_path
    ms,               \* the measurement set at ms_path: its UVW, DATA and
                      \* DATA_DESC_ID columns and the CHAN_FREQ of its
                      \* SPECTRAL_WINDOW table; NoDir when there is no
                      \* directory at ms_path, BadDir for a directory that
                      \* is no measurement set
    CASA_AVAIL,       \* whether casatools could be imported
    state,            \* "new": no object yet; "ready": a Gridder was returned
    img_size, fov, freq,
    uu, vv, u, v, stokes_i,
    samps, bins,
    mask, mask_real, mask_imag,
    dirty_img_cmplx, dirty_img,
    shown,            \* the images the last call handed to the renderer
    exc,              \* the exception the last call raised, or None
    fs,               \* the files the Layout methods write and read: per
                      \* path the content, or Absent
    layout,           \* the Layout the methods are called on
    ret,              \* what the last call returned: NoReturn when it
                      \* raised or returned None
    called,           \* the last call of a method of the other classes
    meas,             \* the Measurement the methods are called on
    wsclean,          \* the WSClean object the methods are called on
    visibility,       \* the SourceVisibility object the methods are called on
    log               \* what the last call did to the outside, in order:
                      \* warnings, removals, calls of casatools

vars == <<fits, ms, CASA_AVAIL, state, img_size, fov, freq, uu, vv, u, v, stokes_i, samps, bins,
          mask, mask_real, mask_imag, dirty_img_cmplx, dirty_img, shown, exc,
          fs, layout, ret, called, meas, wsclean, visibility, log>>

attrs == <<img_size, fov, freq, uu, vv, u, v, stokes_i, samps, bins,
           mask, mask_real, mask_imag, dirty_img_cmplx, dirty_img>>

\* what the Gridder's constructors read and never write
disk == <<fits, ms, CASA_AVAIL>>

\* the Gridder and what it reads and shows
gridder == <<disk, state, attrs, shown>>
\* what belongs to the other classes
tools == <<fs, layout, ret, called, meas, wsclean, visibility, log>>

None == "None"
\* nothing was returned
NoReturn == [type |-> "NoneType"]

(* --------------------------- array helpers ---------------------------- *)
\* -a for a one-dimensional array
Negate(a) == [k \in 1..Len(a) |-> -a[k]]
\* np.append(a, b)
append(a, b) == a \o b
Idx(N) == 0..(N - 1)
\* an N x N array is a function of the row index giving a function of the
\* column index; A[:, ::-1] reverses the order within every row and
\* A[::-1, :] the order of the rows
\* a function with every value evaluated (f @@ <<>> is f, enumerated)
Enum(f) == f @@ <<>>
\* a two-dimensional array with every element evaluated
Array(A) == Enum([x \in DOMAIN A |-> Enum(A[x])])
FlipCols(A, N) == [x \in Idx(N) |-> [y \in Idx(N) |-> A[x][N - 1 - y]]]
FlipRows(A, N) == [x \in Idx(N) |-> [y \in Idx(N) |-> A[N - 1 - x][y]]]

(* ------------------------ Hermitian mirroring ------------------------- *)
\* the order of the imaginary parts in the older radiotools/gridding/
\* gridding.py: append(imag, -imag)
Mirror_legacy(uq, vq, real, imag) ==
    << append(Negate(uq), uq),
       append(Negate(vq), vq),
       append(real, real),
       append(imag, Negate(imag)) >>

\* samps = np.array([append(-u, u), append(-v, v), append(real, real),
\*                   append(-imag, imag)])
Mirror(uq, vq, real, imag) ==
    << append(Negate(uq), uq),
       append(Negate(vq), vq),
       append(real, real),
       append(Negate(imag), imag) >>

(* ----------------------------- bin edges ------------------------------ *)
CeilDiv(a, b) == -((-a) \div b)
\* np.arange(start, stop, step): ceil((stop - start) / step) values
arange(start, stop, step) ==
    LET len == CeilDiv(stop - start, step)
    IN  [k \in 1..(IF len > 0 THEN len ELSE 0) |-> start + (k - 1) * step]

\* edges without the half cell at either end: np.arange(-N/2 * delta,
\* N/2 * delta, delta)
Bins_short(N, delta) ==
    arange(-((N * delta) \div 2), (N * delta) \div 2, delta)

\* edges that start at -N/2 * delta, so that 0 is an edge for even N
Bins_centred(N, delta) ==
    arange(-((N * delta) \div 2), ((N + 2) * delta) \div 2, delta)

\* edges with one more cell: np.arange(-(N/2 + 1/2) * delta,
\* (N/2 + 3/2) * delta, delta)
Bins_long(N, delta) ==
    arange(-(((N + 1) * delta) \div 2), ((N + 3) * delta) \div 2, delta)

\* bins = np.arange(-(N/2 + 1/2) * delta, (N/2 + 1/2) * delta, delta)
Bins(N, delta) ==
    arange(-(((N + 1) * delta) \div 2), ((N + 1) * delta) \div 2, delta)

(* ----------------------------- histograms ----------------------------- *)
\* index of the bin of x, -1 when x lies outside the edges: bins are
\* half-open [e[k], e[k+1]) but for the last one, which is closed
BinOf(x, edges) ==
    LET nb == Len(edges) - 1
    IN  IF x < edges[1] \/ x > edges[nb + 1] THEN -1
        ELSE IF x = edges[nb + 1] THEN nb - 1
        ELSE CHOOSE k \in 0..(nb - 1) : edges[k + 1] <= x /\ x < edges[k + 2]

\* a histogram that counts the samples, whatever their weights
histogram2d_unweighted(xs, ys, edges, w) ==
    LET nb == Len(edges) - 1
        ix == Enum([k \in 1..Len(xs) |-> BinOf(xs[k], edges)])
        iy == Enum([k \in 1..Len(ys) |-> BinOf(ys[k], edges)])
    IN  [i \in Idx(nb) |-> [j \in Idx(nb) |->
            Cardinality({k \in 1..Len(xs) : ix[k] = i /\ iy[k] = j})]]

\* np.histogram2d(xs, ys, bins=[edges, edges], weights=w, density=False):
\* every sample is given its bin along each axis, then the weights of the
\* samples of a cell are added up; samples outside the edges are dropped
histogram2d(xs, ys, edges, w) ==
    LET nb == Len(edges) - 1
        ix == Enum([k \in 1..Len(xs) |-> BinOf(xs[k], edges)])
        iy == Enum([k \in 1..Len(ys) |-> BinOf(ys[k], edges)])
        sum[k \in 0..Len(xs)] ==
            [i \in Idx(nb) |-> [j \in Idx(nb) |->
                IF k = 0 THEN 0
                ELSE sum[k - 1][i][j] + (IF ix[k] = i /\ iy[k] = j THEN w[k] ELSE 0)]]
    IN  sum[Len(xs)]

Ones(n) == [k \in 1..n |-> 1]

\* the mask without the replacement of its zeros
ZeroToOne_skip(m, N) == m

\* mask[mask == 0] = 1
ZeroToOne(m, N) ==
    [i \in Idx(N) |-> [j \in Idx(N) |-> IF m[i][j] = 0 THEN 1 ELSE m[i][j]]]

\* the sums left undivided
DivideBy_sum(a, m, N) ==
    [i \in Idx(N) |-> [j \in Idx(N) |-> <<a[i][j] * Q, 0>>]]

\* a /= mask, cell by cell (0/0 is nan)
DivideBy(a, m, N) ==
    [i \in Idx(N) |-> [j \in Idx(N) |->
        IF m[i][j] = 0 THEN NaN ELSE <<(a[i][j] * Q) \div m[i][j], 0>>]]

(* ------------------------- inverse transform -------------------------- *)
\* 2 * cos(k * 30 degrees) as the pair <<a, b>> of a + b * sqrt(3)
Cos12 ==
    << <<2, 0>>, <<0, 1>>, <<1, 0>>, <<0, 0>>, <<-1, 0>>, <<0, -1>>,
       <<-2, 0>>, <<0, -1>>, <<-1, 0>>, <<0, 0>>, <<1, 0>>, <<0, 1>> >>
\* 2 * exp(i * k * 30 degrees) for k in 0..11; sin(x) = cos(x - 90 degrees)
Root12 == [k \in 0..11 |-> Cplx(Cos12[k + 1], Cos12[((k + 9) % 12) + 1])]
\* 2 * exp(+2 pi i e / N), for N a divisor of 12
Twiddle(N, e) == Root12[((12 \div N) * e) % 12]

\* np.fft.ifftshift(A): every axis rolled by -(N // 2)
fftshift_inverse(A, N) ==
    [x \in Idx(N) |-> [y \in Idx(N) |->
        A[(x + (N \div 2)) % N][(y + (N \div 2)) % N]]]

\* np.fft.fftshift(A): every axis rolled by N // 2
fftshift(A, N) ==
    [x \in Idx(N) |-> [y \in Idx(N) |->
        A[(x - (N \div 2)) % N][(y - (N \div 2)) % N]]]

\* a nan anywhere in the input of a transform is a nan everywhere in its output
HasNaN(A, N) == \E x \in Idx(N), y \in Idx(N) : A[x][y].re = NaN \/ A[x][y].im = NaN

\* np.fft.ifft2(A): the inverse transform along the last axis, then along
\* the first, each normalised by 1/N
ifft2(A, N) ==
    LET inner == Array([a \in Idx(N) |-> [y \in Idx(N) |->
                     LET t == SumTo([b \in Idx(N) |->
                                  CMul(A[a][b], Twiddle(N, (b * y) % N))], N)
                     IN  Cplx(RDiv(t.re, 2 * N), RDiv(t.im, 2 * N))]])
    IN  IF HasNaN(A, N)
        THEN [x \in Idx(N) |-> [y \in Idx(N) |-> Cplx(NaN, NaN)]]
        ELSE [x \in Idx(N) |-> [y \in Idx(N) |->
                     LET t == SumTo([a \in Idx(N) |->
                                  CMul(inner[a][y], Twiddle(N, (a * x) % N))], N)
                     IN  Cplx(RDiv(t.re, 2 * N), RDiv(t.im, 2 * N))]]

\* mask_real + 1j * mask_imag
Grid(mr, mi, N) == [i \in Idx(N) |-> [j \in Idx(N) |-> Cplx(mr[i][j], mi[i][j])]]
\* np.real(A), np.imag(A)
Real(A, N) == [x \in Idx(N) |-> [y \in Idx(N) |-> A[x][y].re]]
Imag(A, N) == [x \in Idx(N) |-> [y \in Idx(N) |-> A[x][y].im]]

(* -------------------------- _create_attributes ------------------------ *)
\* the values of a complex sequence's parts
RealPart(st) == [k \in 1..Len(st) |-> st[k].re]
ImagPart(st) == [k \in 1..Len(st) |-> st[k].im]

\* f ** (-1) for a fraction f whose inverse is an integer
Inverse(f) == f[2] \div f[1]

\* the attributes Gridder._create_attributes(uu, vv, stokes_i) computes on
\* an object whose img_size, fov and freq the constructor has set to N, fv, fr
Attributes(N, fv, fr, uu_, vv_, st) ==
    LET uq    == [k \in 1..Len(uu_) |-> (uu_[k] * fr) \div c]
        vq    == [k \in 1..Len(vv_) |-> (vv_[k] * fr) \div c]
        sm    == Mirror(uq, vq, RealPart(st), ImagPart(st))
        delta == Inverse(fv)
        edges == Enum(Bins(N, delta))
        nb    == Len(edges) - 1
        m     == Array(ZeroToOne(histogram2d(sm[1], sm[2], edges, Ones(Len(sm[1]))), nb))
        mr    == Array(DivideBy(histogram2d(sm[1], sm[2], edges, sm[3]), m, nb))
        mi    == Array(DivideBy(histogram2d(sm[1], sm[2], edges, sm[4]), m, nb))
        dc    == Array(fftshift(ifft2(Array(fftshift(Grid(mr, mi, nb), nb)), nb), nb))
    IN  [ u |-> uq, v |-> vq, samps |-> sm, bins |-> edges,
          mask |-> m, mask_real |-> mr, mask_imag |-> mi,
          dirty_img_cmplx |-> dc, dirty_img |-> Real(dc, nb) ]

\* Gridder._create_attributes: the attributes are assigned to the object
create_attributes(N, fv, fr, uu_, vv_, st) ==
    \E a \in {Attributes(N, fv, fr, uu_, vv_, st)} :
        /\ img_size' = N
        /\ fov' = fv
        /\ freq' = fr
        /\ uu' = uu_
        /\ vv' = vv_
        /\ u' = a.u
        /\ v' = a.v
        /\ stokes_i' = st
        /\ samps' = a.samps
        /\ bins' = a.bins
        /\ mask' = a.mask
        /\ mask_real' = a.mask_real
        /\ mask_imag' = a.mask_imag
        /\ dirty_img_cmplx' = a.dirty_img_cmplx
        /\ dirty_img' = a.dirty_img

(* ------------------------------ from_fits ----------------------------- *)
Coords == (-MaxCoord)..MaxCoord
Vals == 0..MaxVal
Vis == [re : Vals, im : Vals]

\* no file at fits_path (path.is_file() is False)
NoFile == [missing |-> TRUE]

\* the measurement files of n rows
Files(n) ==
    [UU : [1..n -> Coords], VV : [1..n -> Coords],
     DATA : [1..n -> Vis], CRVAL4 : Freqs]

\* Gridder.from_fits(fits_path, img_size, fov): FileNotFoundError when
\* there is no file at fits_path; else the columns are the baselines in
\* light seconds, the frequency is that of the header
from_fits(N, fv) ==
    /\ state = "new"
    /\ IF fits = NoFile
       THEN /\ exc' = "FileNotFoundError"
            /\ UNCHANGED <<state, attrs>>
       ELSE /\ state' = "ready"
            /\ create_attributes(N, fv, fits.CRVAL4,
                                 [k \in 1..Len(fits.UU) |-> fits.UU[k] * c],
                                 [k \in 1..Len(fits.VV) |-> fits.VV[k] * c],
                                 fits.DATA)
            /\ UNCHANGED exc
    /\ UNCHANGED <<disk, shown, tools>>

(* ------------------------------- from_ms ------------------------------ *)
\* no directory at ms_path (path.is_dir() is False)
NoDir == [missing |-> TRUE]
\* a directory that casatools' table() cannot open
BadDir == [bad |-> TRUE]
\* no SPECTRAL_WINDOW table to read CHAN_FREQ from
NoSpw == 0
\* the values of the DATA_DESC_ID column and of the desc_id argument
DescIds == {0, 1}
\* desc_id=None, the default: every row is taken
NoDescId == -1
\* the frequency from_ms falls back to (230e9), the unit of Freqs for a
\* measurement set; UVW is in units of c / 230e9 metres
DefaultFreq == 1

\* the measurement sets of n rows, one spectral window, one channel: per
\* row the u and v of UVW and the sum of the first two correlations
Tables(n) ==
    [UVW : [1..n -> Coords \X Coords], DATA : [1..n -> Vis],
     DATA_DESC_ID : [1..n -> DescIds], CHAN_FREQ : Freqs \cup {NoSpw}]

RECURSIVE Rows(_, _, _)
\* the rows k <= n of ids that pass mask = (ids == desc_id), in order
Rows(ids, desc_id, n) ==
    IF n = 0 THEN <<>>
    ELSE IF desc_id = NoDescId \/ ids[n] = desc_id
         THEN Append(Rows(ids, desc_id, n - 1), n)
         ELSE Rows(ids, desc_id, n - 1)

\* the paths handed to from_ms: the empty string, or a name
MsPaths == {"", "obs.ms"}

\* a from_ms that looks at the path before it looks for casatools
from_ms_pathfirst(ms_path, N, fv, desc_id) ==
    /\ state = "new"
    /\ IF ms_path = ""
       THEN exc' = "IndexError" /\ UNCHANGED <<state, attrs>>
       ELSE IF ms = NoDir
       THEN exc' = "NotADirectoryError" /\ UNCHANGED <<state, attrs>>
       ELSE IF ~CASA_AVAIL
       THEN exc' = "ModuleNotFoundError" /\ UNCHANGED <<state, attrs>>
       ELSE IF ms = BadDir
       THEN exc' = "RuntimeError" /\ UNCHANGED <<state, attrs>>
       ELSE /\ state' = "ready"
            /\ \E rows \in {Rows(ms.DATA_DESC_ID, desc_id, Len(ms.DATA_DESC_ID))} :
                  create_attributes(N, fv,
                      IF ms.CHAN_FREQ = NoSpw THEN DefaultFreq ELSE ms.CHAN_FREQ,
                      [k \in 1..Len(rows) |-> ms.UVW[rows[k]][1] * c],
                      [k \in 1..Len(rows) |-> ms.UVW[rows[k]][2] * c],
                      [k \in 1..Len(rows) |-> ms.DATA[rows[k]]])
            /\ UNCHANGED exc
    /\ UNCHANGED <<disk, shown, tools>>

\* Gridder.from_ms(ms_path, img_size, fov, desc_id): ModuleNotFoundError
\* without casatools; ms_path[-1] of the empty string is an IndexError;
\* NotADirectoryError when there is no directory at ms_path; table() fails
\* on a directory that is no measurement set; else the rows of desc_id
\* (all rows for the default) are gridded at CHAN_FREQ, or at 230e9 when the
\* SPECTRAL_WINDOW table cannot be read
from_ms(ms_path, N, fv, desc_id) ==
    /\ state = "new"
    /\ IF ~CASA_AVAIL
       THEN exc' = "ModuleNotFoundError" /\ UNCHANGED <<state, attrs>>
       ELSE IF ms_path = ""
       THEN exc' = "IndexError" /\ UNCHANGED <<state, attrs>>
       ELSE IF ms = NoDir
       THEN exc' = "NotADirectoryError" /\ UNCHANGED <<state, attrs>>
       ELSE IF ms = BadDir
       THEN exc' = "RuntimeError" /\ UNCHANGED <<state, attrs>>
       ELSE /\ state' = "ready"
            /\ \E rows \in {Rows(ms.DATA_DESC_ID, desc_id, Len(ms.DATA_DESC_ID))} :
                  create_attributes(N, fv,
                      IF ms.CHAN_FREQ = NoSpw THEN DefaultFreq ELSE ms.CHAN_FREQ,
                      [k \in 1..Len(rows) |-> ms.UVW[rows[k]][1] * c],
                      [k \in 1..Len(rows) |-> ms.UVW[rows[k]][2] * c],
                      [k \in 1..Len(rows) |-> ms.DATA[rows[k]]])
            /\ UNCHANGED exc
    /\ UNCHANGED <<disk, shown, tools>>

(* ------------------------------ plotting ------------------------------ *)
\* np.absolute(z), recorded by its square (the modulus is its root), as
\* <<a, b, d>> for (a + b * sqrt(3)) / d in lowest terms
AbsSq(z) ==
    IF z.re = NaN \/ z.im = NaN THEN NaN
    ELSE LET g  == GCD(GCD(GCD(Abs(z.re[1]), Abs(z.re[2])),
                           GCD(Abs(z.im[1]), Abs(z.im[2]))), Q)
             r  == RDiv(z.re, g)
             m  == RDiv(z.im, g)
             d  == (Q \div g) * (Q \div g)
             a  == r[1] * r[1] + 3 * r[2] * r[2] + m[1] * m[1] + 3 * m[2] * m[2]
             b  == 2 * r[1] * r[2] + 2 * m[1] * m[2]
             h  == GCD(GCD(a, Abs(b)), d)
         IN  <<a \div h, b \div h, d \div h>>
\* np.angle(z) for a rational z, recorded by the primitive integer vector
\* of its direction; the angle of 0 is that of the positive reals
Angle(z) ==
    IF z.re = NaN \/ z.im = NaN THEN NaN
    ELSE LET g == GCD(Abs(z.re[1]), Abs(z.im[1]))
         IN  IF g = 0 THEN <<1, 0>> ELSE <<z.re[1] \div g, z.im[1] \div g>>

Img(call, img) == [call |-> call, img |-> img]

UngriddedUV == Img("plot_ungridded_uv", <<append(u, Negate(u)), append(v, Negate(v))>>)
MaskImg == Img("plot_mask", mask)
MaskAbsImg ==
    Img("plot_mask_absolute",
        [i \in Idx(img_size) |-> [j \in Idx(img_size) |->
            AbsSq(Cplx(mask_real[i][j], mask_imag[i][j]))]])
MaskPhaseImg ==
    Img("plot_mask_phase",
        [i \in Idx(img_size) |-> [j \in Idx(img_size) |->
            Angle(Cplx(mask_real[i][j], mask_imag[i][j]))]])

Modes == {"real", "imag", "abs", "other"}
\* the match statement of plot_dirty_image
DirtyImage(mode) ==
    CASE mode = "real" -> dirty_img
      [] mode = "imag" -> FlipCols(Imag(dirty_img_cmplx, img_size), img_size)
      [] mode = "abs"  ->
            FlipCols([x \in Idx(img_size) |-> [y \in Idx(img_size) |->
                          AbsSq(dirty_img_cmplx[x][y])]], img_size)
      [] OTHER -> dirty_img
DirtyImg(mode) == Img("plot_dirty_image", DirtyImage(mode))

\* fig and ax: both None, both given, or only one of them
FigAx == {"none", "both", "one"}

Raise(e) == shown' = <<>> /\ exc' = e
Show(imgs) == shown' = imgs /\ exc' = None

\* (neither fig nor ax is checked here)
plot_ungridded_uv ==
    /\ state = "ready"
    /\ Show(<<UngriddedUV>>)
    /\ UNCHANGED <<disk, state, attrs, tools>>

plot_mask(figax) ==
    /\ state = "ready"
    /\ IF figax = "one" THEN Raise("KeyError") ELSE Show(<<MaskImg>>)
    /\ UNCHANGED <<disk, state, attrs, tools>>

\* plot_args = None stands for the default, the one-element tuple
\* (dict(...),), which ** cannot unpack
plot_mask_absolute(plot_args, figax) ==
    /\ state = "ready"
    /\ IF figax = "one" THEN Raise("KeyError")
       ELSE IF plot_args = None THEN Raise("TypeError")
       ELSE Show(<<MaskAbsImg>>)
    /\ UNCHANGED <<disk, state, attrs, tools>>

plot_mask_phase(figax) ==
    /\ state = "ready"
    /\ IF figax = "one" THEN Raise("KeyError") ELSE Show(<<MaskPhaseImg>>)
    /\ UNCHANGED <<disk, state, attrs, tools>>

\* x < 0 for x = (p + q * sqrt(3)) / Q
Negative(x) ==
    CASE x = NaN -> FALSE
      [] x[1] <= 0 /\ x[2] <= 0 -> x # <<0, 0>>
      [] x[1] >= 0 /\ x[2] >= 0 -> FALSE
      [] x[1] < 0 -> x[1] * x[1] > 3 * x[2] * x[2]
      [] OTHER -> 3 * x[2] * x[2] > x[1] * x[1]

\* a plot_dirty_image that sets the negative pixels of self.dirty_img to 0
\* in place before it shows them, as dirty_image[dirty_image < 0] = 0 of
\* the older radiotools/gridding/gridding.py does in mode "real"
plot_dirty_image_clamp(mode, figax) ==
    LET clamped == [x \in Idx(img_size) |-> [y \in Idx(img_size) |->
                       IF Negative(dirty_img[x][y]) THEN Zero ELSE dirty_img[x][y]]]
    IN  /\ state = "ready"
        /\ IF figax = "one"
           THEN Raise("KeyError") /\ UNCHANGED dirty_img
           ELSE IF mode \in {"imag", "abs"}
           THEN Show(<<DirtyImg(mode)>>) /\ UNCHANGED dirty_img
           ELSE /\ dirty_img' = clamped
                /\ Show(<<Img("plot_dirty_image", clamped)>>)
        /\ UNCHANGED <<tools, disk, state, img_size, fov, freq, uu, vv, u, v, stokes_i,
                       samps, bins, mask, mask_real, mask_imag, dirty_img_cmplx>>

plot_dirty_image(mode, figax) ==
    /\ state = "ready"
    /\ IF figax = "one" THEN Raise("KeyError") ELSE Show(<<DirtyImg(mode)>>)
    /\ UNCHANGED <<disk, state, attrs, tools>>

\* Gridder.plot: the five plots in turn on the axes of one figure;
\* abs_plot_args is the plot_args entry of mask_abs_args, mode the mode
\* entry of dirty_img_args
plot(abs_plot_args, mode) ==
    /\ state = "ready"
    /\ IF abs_plot_args = None
       THEN shown' = <<UngriddedUV, MaskImg>> /\ exc' = "TypeError"
       ELSE Show(<<UngriddedUV, MaskImg, MaskAbsImg, MaskPhaseImg, DirtyImg(mode)>>)
    /\ UNCHANGED <<disk, state, attrs, tools>>

(* --------------------------- specification ---------------------------- *)
\* no Gridder yet
NoObject ==
    /\ state = "new"
    /\ img_size = None /\ fov = None /\ freq = None
    /\ uu = None /\ vv = None /\ u = None /\ v = None /\ stokes_i = None
    /\ samps = None /\ bins = None
    /\ mask = None /\ mask_real = None /\ mask_imag = None
    /\ dirty_img_cmplx = None /\ dirty_img = None
    /\ shown = <<>>
    /\ exc = None

\* nothing of the other classes
NoTools ==
    /\ fs = None /\ layout = None /\ ret = NoReturn /\ called = <<>>
    /\ meas = None /\ wsclean = None /\ visibility = None /\ log = <<>>

\* no object yet; at fits_path no file, or one of at most rows rows; no
\* measurement set and no casatools
InitWith(rows) ==
    /\ \/ fits = NoFile
       \/ \E n \in 0..rows : fits \in Files(n)
    /\ ms = NoDir
    /\ CASA_AVAIL = FALSE
    /\ NoObject
    /\ NoTools

Construct == \E N \in ImgSizes, fv \in Fovs : from_fits(N, fv)

\* construction and any sequence of plotting calls
Init == InitWith(MaxPlotted)
Next ==
    \/ Construct
    \/ plot_ungridded_uv
    \/ \E figax \in FigAx : plot_mask(figax)
    \/ \E pa \in {None, "given"}, figax \in FigAx : plot_mask_absolute(pa, figax)
    \/ \E figax \in FigAx : plot_mask_phase(figax)
    \/ \E mode \in Modes, figax \in FigAx : plot_dirty_image(mode, figax)
    \/ \E pa \in {None, "given"}, mode \in Modes : plot(pa, mode)
Spec == Init /\ [][Next]_vars

\* construction alone, on the larger files
InitGrid == InitWith(MaxSamples)
NextGrid == Construct
SpecGrid == InitGrid /\ [][NextGrid]_vars

\* the two constructors, with or without casatools: a FITS file, or a
\* measurement set, or neither, of at most MaxPlotted rows
InitMs ==
    /\ CASA_AVAIL \in BOOLEAN
    /\ \/ /\ ms = NoDir
          /\ \/ fits = NoFile
             \/ \E n \in 0..MaxPlotted : fits \in Files(n)
       \/ /\ fits = NoFile
          /\ \/ ms = BadDir
             \/ \E n \in 0..MaxPlotted : ms \in Tables(n)
    /\ NoObject
    /\ NoTools
NextMs ==
    \/ Construct
    \/ \E ms_path \in MsPaths, N \in ImgSizes, fv \in Fovs, desc_id \in DescIds \cup {NoDescId} :
          from_ms(ms_path, N, fv, desc_id)
SpecMs == InitMs /\ [][NextMs]_vars

(* ------------------------------- Layout ------------------------------- *)
\* most stations of a layout
MaxStations == 2

\* no file at a path
Absent == [absent |-> TRUE]
\* the sites EarthLocation.of_site knows
KnownSites == {"vla", "alma"}
\* the strings that pd.read_csv reads as missing values whatever the dtype
NaStrings == {"NA", "nan", "null", "None"}
\* the float nan that pd.read_csv puts in place of such a string
NaNName == "float('nan')"

\* a coordinate: the number of the config file and the conversions applied
\* to it since (loc2itrf and itrf2loc are floating-point rotations and
\* translations about a site; they are kept as applied, not evaluated)
Coord(n) == [v |-> n, conv |-> <<>>]
loc2itrf(site, t) == [t EXCEPT !.conv = Append(@, <<"loc2itrf", site>>)]
itrf2loc(t, site) == [t EXCEPT !.conv = Append(@, <<"itrf2loc", site>>)]

\* the stations the layouts of the model are made of: two of ordinary
\* names, one whose name is an NA string, one whose name has two words
Catalogue ==
    { [station_name |-> "ALMA50", x |-> Coord(1), y |-> Coord(2), z |-> Coord(3),
       dish_dia |-> 12, el_low |-> 15, el_high |-> 85, sefd |-> 110, altitude |-> 5],
      [station_name |-> "SMTO", x |-> Coord(4), y |-> Coord(5), z |-> Coord(6),
       dish_dia |-> 10, el_low |-> 10, el_high |-> 80, sefd |-> 0, altitude |-> 3],
      [station_name |-> "NA", x |-> Coord(7), y |-> Coord(8), z |-> Coord(9),
       dish_dia |-> 25, el_low |-> 2, el_high |-> 90, sefd |-> 42, altitude |-> 0],
      [station_name |-> "GLT 12M", x |-> Coord(0), y |-> Coord(1), z |-> Coord(8),
       dish_dia |-> 12, el_low |-> 5, el_high |-> 85, sefd |-> 70, altitude |-> 1] }

\* the values a Python caller can hand over where a name is expected
PyStr(str) == <<"str", str>>
PyInt(n) == <<"int", n>>

\* df["station_name"] and the other columns of a DataFrame of n rows whose
\* index starts at first: the Layout that the constructors make of it
FromFrame(cfg_path, rel_to_site, first, stations) ==
    [cfg_path |-> cfg_path, rel_to_site |-> rel_to_site,
     index |-> [k \in 1..Len(stations) |-> first + k - 1],
     stations |-> stations]

\* Layout.from_pyvisgen / Layout.from_dataframe: the index of the frame is
\* 0..n-1
from_dataframe(cfg_path, rel_to_site, stations) ==
    FromFrame(cfg_path, rel_to_site, 0, stations)
\* Layout.from_url: the header is row 0 of the frame and is dropped without
\* a reset of the index, which is 1..n
from_url(url, rel_to_site, stations) ==
    FromFrame(url, rel_to_site, 1, stations)

\* Layout.is_relative
is_relative(L) == ~(L.rel_to_site = None \/ L.rel_to_site = "")

\* series[i] for an integer i: the element whose index label is i
HasLabel(L, i) == \E k \in 1..Len(L.index) : L.index[k] = i
\* key in series: a test of the index labels, not of the values
InSeries(L, key) == key \in {PyInt(L.index[k]) : k \in 1..Len(L.index)}

\* the coordinates Layout.save writes, or the exception of
\* EarthLocation.of_site for a site it does not know, or that of itrf2loc,
\* which reads x[i], y[i], z[i] of the Series by label for i in range(n)
Converted(L, rel_to_site) ==
    LET save_relative == ~(rel_to_site = None \/ rel_to_site = "")
        Each(f(_)) == [k \in 1..Len(L.stations) |->
                          [x |-> f(L.stations[k].x), y |-> f(L.stations[k].y),
                           z |-> f(L.stations[k].z)]]
        ToLoc(t) == itrf2loc(t, rel_to_site)
        ToItrf(t) == loc2itrf(L.rel_to_site, t)
        Both(t) == itrf2loc(loc2itrf(L.rel_to_site, t), rel_to_site)
        Same(t) == t
    IN  IF save_relative /\ rel_to_site \notin KnownSites
        THEN [exc |-> "UnknownSiteException"]
        ELSE IF is_relative(L) /\ L.rel_to_site \notin KnownSites
        THEN [exc |-> "UnknownSiteException"]
        ELSE IF /\ save_relative /\ ~is_relative(L)
                /\ \E i \in 0..(Len(L.stations) - 1) : ~HasLabel(L, i)
        THEN [exc |-> "KeyError"]
        ELSE [exc |-> None,
              n |-> IF save_relative
                    THEN IF is_relative(L) THEN Each(Both) ELSE Each(ToLoc)
                    ELSE IF is_relative(L) THEN Each(ToItrf) ELSE Each(Same)]

\* the list data that Layout.save hands to writelines: the header strings
\* and one row per station, or the exception raised before anything is
\* written
Data(L, fmt, rel_to_site) ==
    LET save_relative == ~(rel_to_site = None \/ rel_to_site = "")
        cv == Converted(L, rel_to_site)
        n  == Len(L.stations)
        st(i) == L.stations[i + 1]
    IN  IF cv.exc # None THEN [exc |-> cv.exc]
        ELSE IF fmt \notin {"pyvisgen", "casa"} THEN [exc |-> "ValueError"]
        ELSE IF \E i \in 0..(n - 1) : ~HasLabel(L, i) THEN [exc |-> "KeyError"]
        ELSE IF fmt = "pyvisgen"
        THEN [exc |-> None,
              head |-> <<"station_name X Y Z dish_dia el_low el_high SEFD altitude\n">>,
              rows |-> [k \in 1..n |->
                  [station_name |-> st(k - 1).station_name,
                   x |-> cv.n[k].x, y |-> cv.n[k].y, z |-> cv.n[k].z,
                   dish_dia |-> st(k - 1).dish_dia, el_low |-> st(k - 1).el_low,
                   el_high |-> st(k - 1).el_high, sefd |-> st(k - 1).sefd,
                   altitude |-> st(k - 1).altitude]]]
        ELSE [exc |-> None,
              head |-> IF save_relative
                       THEN <<"observatory=" \o rel_to_site,
                              "coordsys=LOC (local tangent plane)",
                              "# X Y Z dish_dia station_name\n">>
                       ELSE <<"# X Y Z dish_dia station_name\n">>,
              rows |-> [k \in 1..n |->
                  [x |-> cv.n[k].x, y |-> cv.n[k].y, z |-> cv.n[k].z,
                   dish_dia |-> st(k - 1).dish_dia,
                   station_name |-> st(k - 1).station_name]]]

\* a save that does not look whether the file exists
Save_clobber(f, L, path, fmt, overwrite, rel_to_site) ==
    LET d == Data(L, fmt, rel_to_site)
    IN  IF d.exc # None
        THEN [fs |-> f, exc |-> d.exc]
        ELSE [fs |-> [f EXCEPT ![path] = [head |-> d.head, rows |-> d.rows]],
              exc |-> None]

\* Layout.save(path, fmt, overwrite, rel_to_site) of L on the files f: the
\* files afterwards and the exception raised, if any.  An existing file is
\* unlinked first when overwrite is set, whatever happens next.
Save(f, L, path, fmt, overwrite, rel_to_site) ==
    IF f[path] # Absent /\ ~overwrite
    THEN [fs |-> f, exc |-> "FileExistsError"]
    ELSE LET d == Data(L, fmt, rel_to_site)
         IN  IF d.exc # None
             THEN [fs |-> [f EXCEPT ![path] = Absent], exc |-> d.exc]
             ELSE [fs |-> [f EXCEPT ![path] = [head |-> d.head, rows |-> d.rows]],
                   exc |-> None]

\* Layout.from_pyvisgen(cfg_path, rel_to_site) on a file that Layout.save
\* wrote in the pyvisgen format: numbers are read back as written, a name
\* that is one of the NA strings is read as nan
from_pyvisgen(content, cfg_path, rel_to_site) ==
    from_dataframe(cfg_path, rel_to_site,
        [k \in 1..Len(content.rows) |->
            [content.rows[k] EXCEPT !.station_name =
                IF @ \in NaStrings THEN NaNName ELSE @]])

\* the paths of the model: one the caller names, and the names that
\* f"./temp_cfg_{uuid.uuid4()}.cfg" can take
TempPaths == {"./temp_cfg_1.cfg", "./temp_cfg_2.cfg"}
Paths == {"layout.cfg"} \cup TempPaths
\* a file that was there before
OldContent == [head |-> <<"# an older file\n">>, rows |-> <<>>]

\* what the callers pass as rel_to_site, fmt and name
SiteArgs == {None, "", "vla", "nowhere"}
Fmts == {"pyvisgen", "casa", "csv"}
NameArgs == {PyStr(s.station_name) : s \in Catalogue} \cup {PyStr("EFFELSBERG")}
                \cup {PyInt(i) : i \in 0..MaxStations}

\* the number of whitespace-separated words of a station name
Words(name) == IF name = "GLT 12M" THEN 2 ELSE 1

\* pd.read_csv(cfg_path, delimiter=r"\s+") raises ParserError on a row of
\* more fields than the rows before it and the header
ParserError(content) ==
    \E k \in 2..Len(content.rows) :
        /\ Words(content.rows[k].station_name) > 1
        /\ \A j \in 1..(k - 1) : Words(content.rows[j].station_name) = 1

\* the layouts of the model: sequences of distinct stations
RECURSIVE StationSeqs(_)
StationSeqs(n) ==
    IF n = 0 THEN {<<>>}
    ELSE LET shorter == StationSeqs(n - 1)
         IN  shorter \cup
             {Append(q, s) : q \in {r \in shorter : Len(r) = n - 1}, s \in Catalogue}
Layouts ==
    LET sts == {q \in StationSeqs(MaxStations) :
                   /\ \A i, j \in 1..Len(q) : i # j => q[i] # q[j]
                   \* read_csv would take the first words for the index
                   /\ Len(q) > 0 => Words(q[1].station_name) = 1}
    IN  {from_dataframe("DataFrame", r, q) : r \in {None, "vla"}, q \in sts}
        \cup {from_url("https://example.org/layout.cfg", r, q) : r \in {None, "vla"},
                  \* the lines of the file are split at whitespace
                  q \in {t \in sts : \A k \in 1..Len(t) : Words(t[k].station_name) = 1}}

\* Layout.save
save(path, fmt, overwrite, rel_to_site) ==
    LET r == Save(fs, layout, path, fmt, overwrite, rel_to_site)
    IN  /\ fs' = r.fs
        /\ exc' = r.exc
        /\ ret' = NoReturn
        /\ called' = <<"save", path, fmt, overwrite, rel_to_site>>
        /\ UNCHANGED <<gridder, layout, meas, wsclean, visibility, log>>

\* Layout.get_station
get_station(name) ==
    /\ IF ~InSeries(layout, name)
       THEN exc' = "KeyError" /\ ret' = NoReturn
       ELSE /\ exc' = None
            /\ ret' = [type |-> "DataFrame",
                       rows |-> SelectSeq(layout.stations,
                                    LAMBDA s : name[1] = "str" /\ s.station_name = name[2])]
    /\ called' = <<"get_station", name>>
    /\ UNCHANGED <<gridder, fs, layout, meas, wsclean, visibility, log>>

\* self.save(temp_path, rel_to_site=...), Layout.from_pyvisgen(temp_path,
\* rel_to_site=...), temp_path.unlink(), new_layout.cfg_path =
\* self.cfg_path, one after the other: an exception ends the call where it
\* is raised
Reread(temp_path, rel_to_site) ==
    LET r == Save(fs, layout, temp_path, "pyvisgen", FALSE, rel_to_site)
    IN  IF r.exc # None
        THEN fs' = r.fs /\ exc' = r.exc /\ ret' = NoReturn
        ELSE IF ParserError(r.fs[temp_path])
        THEN fs' = r.fs /\ exc' = "ParserError" /\ ret' = NoReturn
        ELSE /\ fs' = [r.fs EXCEPT ![temp_path] = Absent]
             /\ exc' = None
             /\ ret' = [type |-> "Layout",
                        value |-> [from_pyvisgen(r.fs[temp_path], temp_path, rel_to_site)
                                       EXCEPT !.cfg_path = layout.cfg_path]]

\* Layout.as_relative: the temporary name is one that no file has
as_relative(rel_to_site) ==
    /\ \E temp_path \in TempPaths :
           fs[temp_path] = Absent /\ Reread(temp_path, rel_to_site)
    /\ called' = <<"as_relative", rel_to_site>>
    /\ UNCHANGED <<gridder, layout, meas, wsclean, visibility, log>>

\* Layout.as_absolute
as_absolute ==
    /\ IF ~is_relative(layout)
       THEN exc' = "TypeError" /\ ret' = NoReturn /\ UNCHANGED fs
       ELSE \E temp_path \in TempPaths :
                fs[temp_path] = Absent /\ Reread(temp_path, None)
    /\ called' = <<"as_absolute">>
    /\ UNCHANGED <<gridder, layout, meas, wsclean, visibility, log>>

\* a Layout, and at the caller's path a file or none; the Gridder is
\* not used
InitLayout ==
    /\ fits = NoFile /\ ms = NoDir /\ CASA_AVAIL = FALSE
    /\ NoObject
    /\ layout \in Layouts
    /\ \E old \in {Absent, OldContent} :
           fs = [p \in Paths |-> IF p = "layout.cfg" THEN old ELSE Absent]
    /\ ret = NoReturn
    /\ called = <<>>
    /\ meas = None /\ wsclean = None /\ visibility = None /\ log = <<>>
NextLayout ==
    \/ \E path \in {"layout.cfg"}, fmt \in Fmts, overwrite \in BOOLEAN, rel_to_site \in SiteArgs :
           save(path, fmt, overwrite, rel_to_site)
    \/ \E name \in NameArgs : get_station(name)
    \/ \E rel_to_site \in SiteArgs : as_relative(rel_to_site)
    \/ as_absolute
SpecLayout == InitLayout /\ [][NextLayout]_vars

(* ----------------------------- Measurement ---------------------------- *)
\* what can be at the target of a conversion before the call: nothing, a
\* regular file, a directory
OldFile == [file |-> "older"]
OldDir == [dir |-> "older"]
\* what casatools leaves there: ms.fromfits a measurement set, ms.tofits a
\* FITS file
NewDir == [dir |-> "fromfits"]
NewFile == [file |-> "tofits"]
IsFile(e) == "file" \in DOMAIN e
IsDir(e) == "dir" \in DOMAIN e

\* the paths the caller names
Targets == {"target", "backup"}

\* Measurement.from_fits sets _fits_path and _fits, Measurement.from_ms
\* sets _ms_path and _ms
Measurements == {[_fits_path |-> "obs.fits"], [_ms_path |-> "obs.ms"]}

\* a save_as_ms that converts whatever is at the path
SaveAsMs_always(f, m, path, overwrite, ok) ==
    IF "_fits_path" \notin DOMAIN m
    THEN [fs |-> f, exc |-> "AttributeError", log |-> <<>>]
    ELSE [fs |-> [f EXCEPT ![path] = NewDir], exc |-> None,
          log |-> <<<<"fromfits", path, m._fits_path, ~overwrite>>>>]

\* Measurement.save_as_ms(path, overwrite) of m on the files f; ok tells
\* whether casatools converts the file or raises
SaveAsMs(f, m, path, overwrite, ok) ==
    LET exists == f[path] # Absent
    IN  IF exists /\ overwrite /\ ~IsDir(f[path])
        THEN \* shutil.rmtree of a regular file
             [fs |-> f, exc |-> "NotADirectoryError", log |-> <<>>]
        ELSE LET first == IF exists
                          THEN IF overwrite THEN <<<<"rmtree", path>>>> ELSE <<<<"warn">>>>
                          ELSE <<>>
                 f1 == IF exists /\ overwrite THEN [f EXCEPT ![path] = Absent] ELSE f
             IN  IF ~(f1[path] = Absent \/ overwrite)
                 THEN [fs |-> f1, exc |-> None, log |-> first]
                 ELSE IF "_fits_path" \notin DOMAIN m
                 THEN [fs |-> f1, exc |-> "AttributeError", log |-> first]
                 ELSE LET conv == <<"fromfits", path, m._fits_path, ~overwrite>>
                      IN  IF ok
                          THEN [fs |-> [f1 EXCEPT ![path] = NewDir], exc |-> None,
                                log |-> Append(first, conv)]
                          ELSE [fs |-> f1, exc |-> "RuntimeError",
                                log |-> Append(first, conv)]

\* Measurement.save_as_fits(path, overwrite); casatools cannot write a file
\* where a directory is
SaveAsFits(f, m, path, overwrite, ok) ==
    LET is_file == IsFile(f[path])
        first == IF is_file
                 THEN IF overwrite THEN <<<<"unlink", path>>>> ELSE <<<<"warn">>>>
                 ELSE <<>>
        f1 == IF is_file /\ overwrite THEN [f EXCEPT ![path] = Absent] ELSE f
    IN  IF ~(~IsFile(f1[path]) \/ overwrite)
        THEN [fs |-> f1, exc |-> None, log |-> first]
        ELSE IF "_ms_path" \notin DOMAIN m
        THEN [fs |-> f1, exc |-> "AttributeError", log |-> first]
        ELSE LET conv == <<"tofits", path, overwrite>>
             IN  IF ok /\ ~IsDir(f1[path])
                 THEN [fs |-> [f1 EXCEPT ![path] = NewFile], exc |-> None,
                       log |-> Append(first, conv)]
                 ELSE [fs |-> f1, exc |-> "RuntimeError", log |-> Append(first, conv)]

save_as_ms(path, overwrite, ok) ==
    LET r == SaveAsMs(fs, meas, path, overwrite, ok)
    IN  /\ fs' = r.fs /\ exc' = r.exc /\ log' = r.log
        /\ ret' = NoReturn
        /\ called' = <<"save_as_ms", path, overwrite>>
        /\ UNCHANGED <<gridder, layout, meas, wsclean, visibility>>

save_as_fits(path, overwrite, ok) ==
    LET r == SaveAsFits(fs, meas, path, overwrite, ok)
    IN  /\ fs' = r.fs /\ exc' = r.exc /\ log' = r.log
        /\ ret' = NoReturn
        /\ called' = <<"save_as_fits", path, overwrite>>
        /\ UNCHANGED <<gridder, layout, meas, wsclean, visibility>>

\* the names that f"./temp_fits_{uuid.uuid4()}/" and
\* f"./temp_fits_{uuid.uuid4()}.fits" can take
TempDirs == {"./temp_fits_1/"}
TempFiles == {"./temp_fits_1.fits"}

\* Measurement.get_ms: without _fits_path the stored tool is returned;
\* otherwise save_as_ms(temp_path), ms.open(temp_path) and
\* shutil.rmtree(temp_path), one after the other; opened tells whether
\* ms.open succeeds
get_ms(ok, opened) ==
    /\ IF "_fits_path" \notin DOMAIN meas
       THEN /\ ret' = [type |-> "ms", path |-> meas._ms_path]
            /\ exc' = None /\ log' = <<>> /\ UNCHANGED fs
       ELSE \E temp_path \in TempDirs :
                /\ fs[temp_path] = Absent
                /\ LET r == SaveAsMs(fs, meas, temp_path, FALSE, ok)
                   IN  IF r.exc # None
                       THEN fs' = r.fs /\ exc' = r.exc /\ log' = r.log /\ ret' = NoReturn
                       ELSE IF ~opened
                       THEN /\ fs' = r.fs /\ exc' = "RuntimeError"
                            /\ log' = Append(r.log, <<"open", temp_path>>)
                            /\ ret' = NoReturn
                       ELSE /\ fs' = [r.fs EXCEPT ![temp_path] = Absent]
                            /\ exc' = None
                            /\ log' = r.log \o << <<"open", temp_path>>, <<"rmtree", temp_path>> >>
                            /\ ret' = [type |-> "ms", path |-> temp_path]
    /\ called' = <<"get_ms">>
    /\ UNCHANGED <<gridder, layout, meas, wsclean, visibility>>

\* Measurement.get_fits: without _ms_path the stored file is returned;
\* otherwise save_as_fits(temp_path), fits.open(temp_path) and
\* temp_path.unlink(); fits.open raises when the file is not there
get_fits(ok) ==
    /\ IF "_ms_path" \notin DOMAIN meas
       THEN /\ ret' = [type |-> "HDUList", path |-> meas._fits_path]
            /\ exc' = None /\ log' = <<>> /\ UNCHANGED fs
       ELSE \E temp_path \in TempFiles :
                /\ fs[temp_path] = Absent
                /\ LET r == SaveAsFits(fs, meas, temp_path, FALSE, ok)
                   IN  IF r.exc # None
                       THEN fs' = r.fs /\ exc' = r.exc /\ log' = r.log /\ ret' = NoReturn
                       ELSE /\ fs' = [r.fs EXCEPT ![temp_path] = Absent]
                            /\ exc' = None
                            /\ log' = r.log \o << <<"open", temp_path>>, <<"unlink", temp_path>> >>
                            /\ ret' = [type |-> "HDUList", path |-> temp_path]
    /\ called' = <<"get_fits">>
    /\ UNCHANGED <<gridder, layout, meas, wsclean, visibility>>

\* a Measurement of either constructor, and at each target nothing, a file
\* or a directory; the Gridder and the Layout are not used
InitMeasurement ==
    /\ fits = NoFile /\ ms = NoDir /\ CASA_AVAIL = TRUE
    /\ NoObject
    /\ layout = None /\ wsclean = None /\ visibility = None /\ ret = NoReturn /\ called = <<>> /\ log = <<>>
    /\ meas \in Measurements
    /\ \E t \in [Targets -> {Absent, OldFile, OldDir}] :
           fs = [p \in Targets \cup TempDirs \cup TempFiles |->
                    IF p \in Targets THEN t[p] ELSE Absent]
NextMeasurement ==
    \/ \E path \in Targets, overwrite \in BOOLEAN, ok \in BOOLEAN :
           save_as_ms(path, overwrite, ok)
    \/ \E path \in Targets, overwrite \in BOOLEAN, ok \in BOOLEAN :
           save_as_fits(path, overwrite, ok)
    \/ \E ok \in BOOLEAN, opened \in BOOLEAN : get_ms(ok, opened)
    \/ \E ok \in BOOLEAN : get_fits(ok)
SpecMeasurement == InitMeasurement /\ [][NextMeasurement]_vars

(* ------------------------------- WSClean ------------------------------ *)
\* the values of Python that the constructor is called with
PyNone == [type |-> "NoneType"]
PyBool(b) == [type |-> "bool", value |-> b]
PyDict(d) == [type |-> "dict", value |-> d]
PyPath(str) == [type |-> "str", value |-> str]

\* a config of all the options that the constructor reads
Config(size, mf_weighting, verbose, multiscale) ==
    [file_name |-> "obs", data_column |-> "DATA", auto_threshold |-> 1, auto_mask |-> 3,
     size |-> size, mf_weighting |-> mf_weighting, verbose |-> verbose,
     multiscale |-> multiscale, pol |-> "I", niter |-> 5]
\* size is an int, here <<64>>, or a list of two
\* the configs of the model; the last lacks the options
Configs ==
    {Config(<<64>>, TRUE, FALSE, TRUE), Config(<<64, 32>>, FALSE, TRUE, FALSE),
     [pol |-> "I", niter |-> 5]}

\* a toml file of a config, and a file that toml.load cannot read
Toml(config) == [file |-> "toml", toml |-> config]
NoToml == [file |-> "not toml"]

\* the translation of the older radiotools/cleaning/clean.py, which keeps
\* mf_weighting when it is not False
Translate_legacy(config) ==
    ("name" :> config.file_name) @@ ("data-column" :> config.data_column)
    @@ ("auto-threshold" :> config.auto_threshold) @@ ("auto-mask" :> config.auto_mask)
    @@ ("size" :> IF Len(config.size) = 1 THEN <<config.size[1], config.size[1]>>
                  ELSE config.size)
    @@ (IF config.mf_weighting = FALSE THEN "no-mf-weighting" :> ""
        ELSE ("mf-weighting" :> "") @@ ("mf_weighting" :> config.mf_weighting))
    @@ (IF config.verbose = FALSE THEN "quiet" :> "" ELSE <<>>)
    @@ (IF config.multiscale = FALSE THEN <<>> ELSE "multiscale" :> "")
    @@ ("pol" :> config.pol) @@ ("niter" :> config.niter)

\* the options as wsclean takes them: dict keys with hyphens, flags with
\* the empty string for argument.  The order of the keys is not kept.
Translate(config) ==
    ("name" :> config.file_name) @@ ("data-column" :> config.data_column)
    @@ ("auto-threshold" :> config.auto_threshold) @@ ("auto-mask" :> config.auto_mask)
    @@ ("size" :> IF Len(config.size) = 1 THEN <<config.size[1], config.size[1]>>
                  ELSE config.size)
    @@ (IF config.mf_weighting = FALSE THEN "no-mf-weighting" :> ""
        ELSE "mf-weighting" :> "")
    @@ (IF config.verbose = FALSE THEN "quiet" :> "" ELSE <<>>)
    @@ (IF config.multiscale = FALSE THEN <<>> ELSE "multiscale" :> "")
    @@ ("pol" :> config.pol) @@ ("niter" :> config.niter)

\* self.skymodel_kwargs
Skymodel(config) ==
    ("name" :> config["name"] \o "_" \o config["pol"] \o "_skymodel")
    @@ ("data-column" :> "DATA") @@ ("auto-threshold" :> 1) @@ ("auto-mask" :> 3)
    @@ ("niter" :> 1000000) @@ config

\* the keys that the translation pops or reads
Options == {"file_name", "data_column", "auto_threshold", "auto_mask", "size",
            "mf_weighting", "verbose", "multiscale"}

\* a constructor that looks for the measurement set before it looks at the
\* type of clean_config
Construction_msfirst(f, msfile, clean_config, create_skymodel, save_config) ==
    IF ~IsDir(f[msfile])
    THEN [exc |-> "OSError", fs |-> f, log |-> <<>>, self |-> NoReturn]
    ELSE IF clean_config.type \notin {"dict", "str", "Path"}
    THEN [exc |-> "ValueError", fs |-> f, log |-> <<>>, self |-> NoReturn]
    ELSE [exc |-> "OSError", fs |-> f, log |-> <<>>, self |-> NoReturn]

\* WSClean.__init__ on the files f: the exception, the files and what was
\* written and run, and the object
Construction(f, msfile, clean_config, create_skymodel, save_config) ==
    LET Failed(e, g, l) == [exc |-> e, fs |-> g, log |-> l, self |-> NoReturn]
    IN  IF clean_config.type \notin {"dict", "str", "Path"} THEN Failed("ValueError", f, <<>>)
        ELSE IF ~IsDir(f[msfile]) THEN Failed("OSError", f, <<>>)
        ELSE IF clean_config.type \in {"str", "Path"} /\ ~IsFile(f[clean_config.value])
        THEN Failed("OSError", f, <<>>)
        ELSE IF clean_config.type \in {"str", "Path"} /\ f[clean_config.value] = NoToml
        THEN Failed("TomlDecodeError", f, <<>>)
        ELSE
        LET config == IF clean_config.type = "dict" THEN clean_config.value
                      ELSE f[clean_config.value].toml
            saving == IF save_config.type = "bool" THEN save_config.value
                      ELSE save_config.value # ""
            named == save_config.type \in {"str", "Path"}
        IN  IF saving /\ ~named /\ "file_name" \notin DOMAIN config
            THEN Failed("KeyError", f, <<>>)
            ELSE
            LET output_file == IF named THEN save_config.value
                               ELSE config.file_name \o "_" \o config.pol \o "_config.toml"
                f1 == IF saving THEN [f EXCEPT ![output_file] = Toml(config)] ELSE f
                l1 == IF saving THEN <<<<"toml.dump", output_file>>>> ELSE <<>>
            IN  IF ~(Options \subseteq DOMAIN config) THEN Failed("KeyError", f1, l1)
                ELSE LET _clean_config == Translate(config)
                     IN  IF create_skymodel
                         THEN [exc |-> None, fs |-> f1,
                               log |-> Append(l1, <<"wsclean", Skymodel(_clean_config), msfile>>),
                               self |-> [type |-> "WSClean", cleaned |-> 0, ms |-> msfile,
                                         _clean_config |-> _clean_config,
                                         skymodel_kwargs |-> Skymodel(_clean_config)]]
                         ELSE [exc |-> None, fs |-> f1, log |-> l1,
                               self |-> [type |-> "WSClean", cleaned |-> 0, ms |-> msfile,
                                         _clean_config |-> _clean_config]]

\* WSClean(ms, clean_config, create_skymodel, save_config)
WSClean(msfile, clean_config, create_skymodel, save_config) ==
    LET r == Construction(fs, msfile, clean_config, create_skymodel, save_config)
    IN  /\ exc' = r.exc /\ fs' = r.fs /\ log' = r.log /\ ret' = r.self
        /\ wsclean' = IF r.exc = None THEN r.self ELSE wsclean
        /\ called' = <<"WSClean", msfile, clean_config, create_skymodel, save_config>>
        /\ UNCHANGED <<gridder, layout, meas, visibility>>

\* most calls of clean_image on one object
MaxCleans == 2

\* WSClean.clean_image: self._clean_config["name"] += "_" + pol, then
\* wsclean is run with every option of self._clean_config and self.ms;
\* cleaned counts the calls
CleanImage(self) ==
    LET _clean_config == [self._clean_config EXCEPT
                             !["name"] = @ \o "_" \o self._clean_config["pol"]]
    IN  [self |-> [self EXCEPT !._clean_config = _clean_config, !.cleaned = @ + 1],
         log |-> <<<<"wsclean", _clean_config, self.ms>>>>]

clean_image ==
    /\ wsclean # NoReturn
    /\ wsclean.cleaned < MaxCleans
    /\ LET r == CleanImage(wsclean)
       IN  wsclean' = r.self /\ log' = r.log
    /\ exc' = None /\ ret' = NoReturn
    /\ called' = <<"clean_image">>
    /\ UNCHANGED <<gridder, layout, meas, visibility, fs>>

\* the paths of the model and what the constructor is called with
CleanPaths == {"obs.ms", "clean.toml", "saved.toml", "obs_I_config.toml"}
CleanConfigs ==
    {PyNone, [type |-> "int", value |-> 5], PyPath("clean.toml")}
        \cup {PyDict(d) : d \in Configs}
SaveConfigs == {PyBool(FALSE), PyBool(TRUE), PyPath("saved.toml")}

\* at the path of the measurement set and at that of the config nothing, a
\* file or a directory; the Gridder, the Layout and the Measurement are not
\* used
InitClean ==
    /\ fits = NoFile /\ ms = NoDir /\ CASA_AVAIL = FALSE
    /\ NoObject
    /\ layout = None /\ meas = None /\ ret = NoReturn /\ called = <<>> /\ log = <<>>
    /\ wsclean = NoReturn /\ visibility = None
    /\ \E m \in {Absent, OldFile, OldDir},
          t \in {Absent, OldDir, NoToml, Toml(Config(<<64>>, TRUE, FALSE, TRUE)),
                 Toml([pol |-> "I", niter |-> 5])} :
           fs = [p \in CleanPaths |->
                    IF p = "obs.ms" THEN m ELSE IF p = "clean.toml" THEN t ELSE Absent]
NextClean ==
    \/ \E msfile \in {"obs.ms"}, clean_config \in CleanConfigs, create_skymodel \in BOOLEAN,
          save_config \in SaveConfigs :
           WSClean(msfile, clean_config, create_skymodel, save_config)
    \/ clean_image
SpecClean == InitClean /\ [][NextClean]_vars

(* ------------------------------ Fiducial ------------------------------ *)
\* A FITS image is the cards of its header that the class reads and the
\* plane hdu.data[0, 0], a sequence of rows of integer flux values.  CDELT1
\* is a whole number of degrees, so that cell_size / 3600 is exact.
FitsFile(header, data) == [file |-> "fits", header |-> header, data |-> data]
\* Fiducial(fits_path)
Fiducial(fits_path) == [type |-> "Fiducial", _fits_path |-> fits_path]
\* image.shape
Shape(image) == <<Len(image), IF Len(image) = 0 THEN 0 ELSE Len(image[1])>>
\* image[:, ::-1]
Reversed(image) ==
    [r \in 1..Len(image) |-> [k \in 1..Len(image[r]) |-> image[r][Len(image[r]) + 1 - k]]]
\* str.lower() of the unit strings in use
Lower(str) ==
    IF str = "JY/BEAM" THEN "jy/beam"
    ELSE IF str = "Jy/beam" THEN "jy/beam"
    ELSE IF str = "Jy/pix" THEN "jy/pix"
    ELSE IF str = "mJy/beam" THEN "mjy/beam"
    ELSE str
\* flux_unit.split("/")
Components(flux_unit) ==
    IF Lower(flux_unit) = "jy/beam" THEN <<"Jy", "beam">>
    ELSE IF Lower(flux_unit) = "jy/pix" THEN <<"Jy", "pix">>
    ELSE IF Lower(flux_unit) = "mjy/beam" THEN <<"mJy", "beam">>
    ELSE <<flux_unit>>

\* get_metadata: the entries that preprocess and get_maximum_info use
get_metadata(hdu) ==
    [img_size |-> Shape(hdu.data)[1],
     cell_size |-> Abs(hdu.header.CDELT1 * 3600),
     img_ra |-> hdu.header.CRVAL1,
     img_dec |-> hdu.header.CRVAL2,
     flux_unit |-> hdu.header.BUNIT]

\* image * factor
Scaled(image, factor) ==
    [r \in 1..Len(image) |-> [k \in 1..Len(image[r]) |-> image[r][k] * factor]]

\* get_image: the plane, mirrored when the direction of the RA axis is not
\* the one asked for, in the unit asked for.  beam2pix and pix2beam are
\* imported from radiotools.utils; their result is the image times a factor
\* that the caller of this operator chooses.
get_image(hdu, ra_incr_right, flux_unit, allow_unit_prefixes, factor) ==
    LET header == hdu.header
        image == IF \/ header.CDELT1 < 0 /\ ra_incr_right
                    \/ header.CDELT1 > 0 /\ ~ra_incr_right
                 THEN Reversed(hdu.data) ELSE hdu.data
    IN  IF flux_unit = None THEN [exc |-> None, image |-> image]
        ELSE IF Lower(flux_unit) = Lower(header.BUNIT) THEN [exc |-> None, image |-> image]
        ELSE IF ~allow_unit_prefixes /\ Components(flux_unit)[1] # "Jy"
             THEN [exc |-> "ValueError", image |-> image]
        ELSE IF Components(flux_unit)[2] = Components(header.BUNIT)[2]
             THEN [exc |-> None, image |-> image]
        ELSE [exc |-> None, image |-> Scaled(image, factor)]

\* image.argmax() of the flattened image: the first of the largest values,
\* unravelled to <<row, column>>, counted from 0
Flat(image) ==
    [k \in 1..(Shape(image)[1] * Shape(image)[2]) |->
        image[((k - 1) \div Shape(image)[2]) + 1][((k - 1) % Shape(image)[2]) + 1]]
Maximum(image) ==
    LET flat == Flat(image)
    IN  CHOOSE m \in {flat[k] : k \in DOMAIN flat} : \A k \in DOMAIN flat : flat[k] <= m
argmax(image) ==
    LET flat == Flat(image)
        first == CHOOSE k \in DOMAIN flat :
                    /\ flat[k] = Maximum(image)
                    /\ \A j \in 1..(k - 1) : flat[j] < flat[k]
    IN  <<(first - 1) \div Shape(image)[2], (first - 1) % Shape(image)[2]>>

\* get_maximum_info of a file: image.max(), the brightest pixel as (x, y)
\* and the sky coordinate of that pixel in degrees
get_maximum_info(hdu) ==
    LET image == get_image(hdu, TRUE, None, TRUE, 1).image
        metadata == get_metadata(hdu)
        brightest_pixels == <<argmax(image)[2], argmax(image)[1]>>
        centre == <<Shape(image)[2] \div 2, Shape(image)[1] \div 2>>
    IN  [max |-> Maximum(image),
         brightest_pixels |-> brightest_pixels,
         brightest_unit |->
            <<((brightest_pixels[1] - centre[1]) * metadata.cell_size) \div 3600
                  + hdu.header.CRVAL1,
              ((brightest_pixels[2] - centre[2]) * metadata.cell_size) \div 3600
                  + hdu.header.CRVAL2>>]

\* the position, counted from 0, that numpy gives the slice bound i of an
\* axis of length n
Clip(i, n) == IF i < 0 THEN (IF i + n < 0 THEN 0 ELSE i + n) ELSE IF i > n THEN n ELSE i
\* seq[lo:hi]
Slice(seq, lo, hi) ==
    LET first == Clip(lo, Len(seq))
        last == Clip(hi, Len(seq))
    IN  [k \in 1..(IF last > first THEN last - first ELSE 0) |-> seq[first + k]]
\* fiducial[crop[1][0] : crop[1][1], crop[0][0] : crop[0][1]]
Cropped(image, crop) ==
    LET rows == Slice(image, crop[2][1], crop[2][2])
    IN  [r \in 1..Len(rows) |-> Slice(rows[r], crop[1][1], crop[1][2])]
\* a limit of the crop is <<>> for None and <<n>> for the integer n; the
\* limits with None replaced by the limit of crop_max
Limits(crop, size) ==
    [i \in 1..2 |-> [j \in 1..2 |->
        IF crop[i][j] = <<>> THEN (IF j = 1 THEN 0 ELSE size) ELSE crop[i][j][1]]]
\* fiducial[fiducial < level] = 0.  remove_negatives is the level 0; rms_cut
\* and dbscan_clean of radio_stats also set pixels to zero, below a level
\* that is theirs to choose.
Cut(image, level) ==
    [r \in 1..Len(image) |->
        [k \in 1..Len(image[r]) |-> IF image[r][k] < level THEN 0 ELSE image[r][k]]]
\* "{parent / stem}_processed.fits"
ProcessedPath(fits_path) ==
    IF fits_path = "img.fits" THEN "img_processed.fits" ELSE "out_processed.fits"

\* processed_path.is_file() and not overwrite
Skips_never(files, processed_path, overwrite) == FALSE
Skips(files, processed_path, overwrite) == IsFile(files[processed_path]) /\ ~overwrite

\* the header of the processed image
Processed(header, metadata, ra_incr_right, flux_unit, crop) ==
    LET center_pixels == <<(crop[1][1] + crop[1][2]) \div 2, (crop[2][1] + crop[2][2]) \div 2>>
    IN  [header EXCEPT
            !.CDELT1 = IF ra_incr_right THEN Abs(header.CDELT1) ELSE -Abs(header.CDELT1),
            !.BUNIT = flux_unit,
            !.CRVAL1 = (metadata.img_ra
                        + ((center_pixels[1] - (metadata.img_size \div 2)) * metadata.cell_size) \div 3600)
                       % 360,
            !.CRVAL2 = ((metadata.img_dec
                         + ((center_pixels[2] - (metadata.img_size \div 2)) * metadata.cell_size) \div 3600
                         + 90) % 180) - 90]

\* hdu.writeto(path, overwrite): astropy refuses a path that exists unless
\* overwrite is set, and then removes it with os.remove, which fails on a
\* directory
Writeto(files, path, hdu, overwrite) ==
    IF files[path] = Absent THEN [exc |-> None, fs |-> [files EXCEPT ![path] = hdu]]
    ELSE IF ~overwrite \/ IsDir(files[path]) THEN [exc |-> "OSError", fs |-> files]
    ELSE [exc |-> None, fs |-> [files EXCEPT ![path] = hdu]]

\* preprocess of the Fiducial of fits_path.  args is the record of the
\* keyword arguments; level and factor are the choices of radio_stats and of
\* the unit conversion.
Preprocess(files, fits_path, args, level, factor) ==
    LET processed_path == IF args.output_path = None THEN ProcessedPath(fits_path)
                          ELSE args.output_path
        Failed(e) == [fs |-> files, ret |-> NoReturn, exc |-> e, warned |-> FALSE]
    IN  IF Skips(files, processed_path, args.overwrite)
        THEN [fs |-> files, ret |-> Fiducial(processed_path), exc |-> None, warned |-> TRUE]
        ELSE IF ~IsFile(files[fits_path]) THEN Failed("FileNotFoundError")
        ELSE
        LET hdu == files[fits_path]
            got == get_image(hdu, args.ra_incr_right, args.flux_unit, FALSE, factor)
            metadata == get_metadata(hdu)
            fiducial == IF args.clean THEN Cut(got.image, level)
                        ELSE IF args.remove_negatives THEN Cut(got.image, 0)
                        ELSE got.image
            crop == Limits(args.crop, metadata.img_size)
            header == Processed(hdu.header, metadata, args.ra_incr_right, args.flux_unit, crop)
            written == Writeto(files, processed_path,
                               FitsFile(header, Cropped(fiducial, crop)), args.overwrite)
        IN  IF got.exc # None THEN Failed(got.exc)
            ELSE IF crop[1][2] - crop[1][1] # crop[2][2] - crop[2][1] THEN Failed("IndexError")
            ELSE IF written.exc # None THEN Failed(written.exc)
            ELSE [fs |-> written.fs, ret |-> Fiducial(processed_path), exc |-> None,
                  warned |-> FALSE]

MaxRuns == 1
preprocess(fits_path, args, level, factor) ==
    /\ Len(log) < MaxRuns
    /\ LET r == Preprocess(fs, fits_path, args, level, factor)
       IN  /\ fs' = r.fs /\ ret' = r.ret /\ exc' = r.exc
           /\ log' = Append(log, IF r.warned THEN "UserWarning" ELSE "quiet")
    /\ called' = <<"preprocess", fits_path, args>>
    /\ UNCHANGED <<gridder, layout, meas, wsclean, visibility>>

\* the images, headers and paths of the model
MaxFlux == 3
FiducialImages ==
    {<<<<0, 1, 0>>, <<-1, MaxFlux, 0>>, <<0, 0, 0>>>>,
     <<<<-2, -1, -3>>, <<-1, -2, -1>>, <<-3, -1, -2>>>>,
     <<<<0, 2, 0>>, <<MaxFlux, 0, -1>>>>}
FiducialHeader(CDELT1, CRVAL1, CRVAL2, BUNIT) ==
    [CDELT1 |-> CDELT1, CRVAL1 |-> CRVAL1, CRVAL2 |-> CRVAL2, BUNIT |-> BUNIT,
     OBJECT |-> "M87"]
FiducialHeaders ==
    {FiducialHeader(d, pos[1], pos[2], "JY/BEAM") : d \in {-1, 1}, pos \in {<<10, 0>>, <<359, 89>>}}
OldFits == FitsFile(FiducialHeader(1, 10, 0, "Jy/pix"), <<<<7>>>>)
FiducialPaths == {"img.fits", "img_processed.fits", "out.fits", "out_processed.fits"}
Crops ==
    {<<<<<<>>, <<>>>>, <<<<>>, <<>>>>>>,
     <<<<<<0>>, <<2>>>>, <<<<0>>, <<2>>>>>>,
     <<<<<<1>>, <<3>>>>, <<<<0>>, <<2>>>>>>,
     <<<<<<1>>, <<>>>>, <<<<1>>, <<3>>>>>>,
     <<<<<<0>>, <<2>>>>, <<<<0>>, <<1>>>>>>,
     <<<<<<1>>, <<4>>>>, <<<<1>>, <<4>>>>>>}
FluxUnits == {None, "Jy/beam", "Jy/pix", "mJy/beam"}
PreprocessArgs ==
    {a \in [clean : BOOLEAN, remove_negatives : BOOLEAN, ra_incr_right : BOOLEAN,
            crop : Crops, output_path : {None, "out.fits"}, flux_unit : FluxUnits,
            overwrite : BOOLEAN] :
        a.clean => a.remove_negatives}
\* the levels radio_stats may cut at, and the factors of a unit conversion
Levels == {1, MaxFlux + 1}
Factors == {2}

InitFiducial ==
    /\ fits = NoFile /\ ms = NoDir /\ CASA_AVAIL = FALSE
    /\ NoObject
    /\ layout = None /\ meas = None /\ wsclean = None /\ visibility = None
    /\ ret = NoReturn /\ called = <<>> /\ log = <<>>
    /\ \E header \in FiducialHeaders, image \in FiducialImages,
          processed \in {Absent, OldFits}, out \in {Absent, OldFits, OldDir} :
           fs = [p \in FiducialPaths |->
                    IF p = "img.fits" THEN FitsFile(header, image)
                    ELSE IF p = "img_processed.fits" THEN processed
                    ELSE IF p = "out.fits" THEN out
                    ELSE Absent]
NextFiducial ==
    /\ Len(log) < MaxRuns
    /\ \E fits_path \in {"img.fits", "out.fits"}, args \in PreprocessArgs,
          level \in Levels, factor \in Factors :
           /\ args.output_path # fits_path
           /\ args.clean \/ level = 1
           /\ preprocess(fits_path, args, level, factor)
SpecFiducial == InitFiducial /\ [][NextFiducial]_vars

(* ------------------------------ px2radec ------------------------------ *)
\* Pixel positions that may be half-integers (CRPIX, the limits) are counted
\* in half pixels: the model's value is twice the program's.  Ticks and
\* labels are whole pixels.  CDELT2 is a whole number of 1/128 degree, so
\* that every product below is exact in floating point as well.
HalfPixels == 2
CdeltDenominator == 128
\* _PREFIXES: the factor from degrees and the name shown on the axis
\* (the microarcsecond entries, whose factor 3.6e9 is beyond the integers of
\* the model checker, are left out)
PREFIXES ==
    [unit \in {"milliarcsecond", "marcsec", "masec", "mas"} |-> <<3600000, "mas">>]
    @@ [unit \in {"arcsecond", "arcsec", "asec", "as"} |-> <<3600, "as">>]
\* int(x) of the quotient p / q, q > 0: the digits after the point are cut
Trunc(p, q) == IF p >= 0 THEN p \div q ELSE -((-p) \div q)
\* np.linspace(start, stop, num, dtype=int, endpoint=True), start and stop in
\* half pixels: num evenly spaced values from start to stop, cut to integers
linspace_open(start, stop, num) ==
    IF num = 0 THEN <<>>
    ELSE [k \in 1..num |-> Trunc(start * num + (k - 1) * (stop - start), HalfPixels * num)]
linspace(start, stop, num) ==
    IF num = 0 THEN <<>>
    ELSE IF num = 1 THEN <<Trunc(start, HalfPixels)>>
    ELSE [k \in 1..num |->
            Trunc(start * (num - 1) + (k - 1) * (stop - start), HalfPixels * (num - 1))]
\* f"{p / q:.2f}": the sign and the hundredths, rounded half to even
Format(p, q) ==
    LET n == Abs(p) * 100
        down == n \div q
        rest == n % q
        hundredths == IF 2 * rest > q THEN down + 1
                      ELSE IF 2 * rest < q THEN down
                      ELSE IF down % 2 = 0 THEN down ELSE down + 1
    IN  [negative |-> p < 0, hundredths |-> hundredths]
\* the string "0.00"
ZeroLabel == [negative |-> FALSE, hundredths |-> 0]
\* ticks - ref_pos, in half pixels
Offsets(ticks, ref) == [k \in 1..Len(ticks) |-> HalfPixels * ticks[k] - ref]
\* whether ticklabels[ticklabels >= 0][0] exists, and the index it has
HasShift(offsets) == \E k \in 1..Len(offsets) : offsets[k] >= 0
ShiftIndex(offsets) ==
    CHOOSE k \in 1..Len(offsets) : offsets[k] >= 0 /\ \A j \in 1..(k - 1) : offsets[j] < 0
\* the labels of one axis
Labels(ticks, ref, px_incr, unit) ==
    LET offsets == Offsets(ticks, ref)
        shift == offsets[ShiftIndex(offsets)]
    IN  [k \in 1..Len(ticks) |->
            LET label == (offsets[k] - shift) \div HalfPixels
            IN  IF label # 0
                THEN LET g == GCD(PREFIXES[unit][1], CdeltDenominator)
                     IN  Format(label * px_incr * (PREFIXES[unit][1] \div g),
                                CdeltDenominator \div g)
                ELSE ZeroLabel]
\* (ref - lim[0], ref + lim[1]) if lim else (0, naxis); lim is <<>> for None
Lim(lim, ref, naxis) ==
    IF lim # <<>> THEN <<ref - HalfPixels * lim[1], ref + HalfPixels * lim[2]>>
    ELSE <<0, HalfPixels * naxis>>

\* px2radec(header, xlim, ylim, num_ticks, unit, ax): what it returns or
\* raises and the calls of ax.set.  An int num_ticks is <<n>>, a tuple is
\* <<nx, ny>>; ax is whether an axis is given.
Px2radec(header, xlim_arg, ylim_arg, num_ticks_arg, unit, ax) ==
    LET Failed(e) == [exc |-> e, ret |-> NoReturn, set |-> <<>>]
        px_incr == header.CDELT2
        ref_pos == <<header.CRPIX1 - HalfPixels, header.CRPIX2 - HalfPixels>>
        xlim == Lim(xlim_arg, ref_pos[1], header.NAXIS1)
        ylim == Lim(ylim_arg, ref_pos[2], header.NAXIS2)
        num_ticks == IF Len(num_ticks_arg) = 2 THEN num_ticks_arg
                     ELSE <<num_ticks_arg[1], num_ticks_arg[1]>>
        xticks == linspace(xlim[1], xlim[2], num_ticks[1])
        yticks == linspace(ylim[1], ylim[2], num_ticks[2])
    IN  IF unit \notin DOMAIN PREFIXES THEN Failed("ValueError")
        ELSE IF ~HasShift(Offsets(xticks, ref_pos[1])) THEN Failed("IndexError")
        ELSE IF ~HasShift(Offsets(yticks, ref_pos[2])) THEN Failed("IndexError")
        ELSE LET r == [type |-> "tuple", xlim |-> xlim, ylim |-> ylim,
                       xticks |-> xticks, yticks |-> yticks,
                       xticklabels |-> Labels(xticks, ref_pos[1], px_incr, unit),
                       yticklabels |-> Labels(yticks, ref_pos[2], px_incr, unit)]
             IN  [exc |-> None, ret |-> r,
                  set |-> IF ax THEN <<<<"ax.set", r, PREFIXES[unit][2]>>>> ELSE <<>>]

px2radec(header, xlim, ylim, num_ticks, unit, ax) ==
    /\ LET r == Px2radec(header, xlim, ylim, num_ticks, unit, ax)
       IN  exc' = r.exc /\ ret' = r.ret /\ log' = r.set
    /\ called' = <<"px2radec", header, xlim, ylim, num_ticks, unit, ax>>
    /\ UNCHANGED <<gridder, fs, layout, meas, wsclean, visibility>>

\* the headers, limits and numbers of ticks of the model; CRPIX in half
\* pixels (3 is the pixel 1.5)
MaxTicks == 3
PlotHeader(CDELT2, CRPIX1) ==
    [CDELT2 |-> CDELT2, CRPIX1 |-> CRPIX1, CRPIX2 |-> 4, NAXIS1 |-> 4, NAXIS2 |-> 5]
PlotHeaders == {PlotHeader(1, 2), PlotHeader(1, 5), PlotHeader(-1, 5), PlotHeader(1, 12)}
PlotLimits == {<<>>, <<1, 1>>, <<1, -2>>}
NumTicks == {<<0>>, <<1>>, <<MaxTicks>>, <<2, MaxTicks>>}
PlotUnits == {"mas", "as", "kiloarcsecond"}

InitPlot ==
    /\ fits = NoFile /\ ms = NoDir /\ CASA_AVAIL = FALSE
    /\ NoObject
    /\ NoTools
NextPlot ==
    \E header \in PlotHeaders, xlim \in PlotLimits, ylim \in {<<>>, <<2, 1>>},
       num_ticks \in NumTicks, unit \in PlotUnits, ax \in BOOLEAN :
        px2radec(header, xlim, ylim, num_ticks, unit, ax)
SpecPlot == InitPlot /\ [][NextPlot]_vars

(* -------------------------- SourceVisibility -------------------------- *)
\* self.dates is numbered 1..Dates and a time is counted in half hours, so
\* that obs_length / 2 hours is obs_length half hours; consecutive dates are
\* DateStep half hours apart.  source_pos[i] is the altitude in degrees of
\* the source at every date for station i, which astropy computes from the
\* target, the location and the dates.
Dates == 3
DateStep == 2
DateOf(idx) == DateStep * idx
\* np.max and np.argmax (the first of the largest) of the altitudes
np_max(alt) == CHOOSE m \in {alt[k] : k \in 1..Len(alt)} : \A k \in 1..Len(alt) : alt[k] <= m
np_argmax(alt) ==
    CHOOSE k \in 1..Len(alt) : alt[k] = np_max(alt) /\ \A j \in 1..(k - 1) : alt[j] < alt[k]

\* the altitude check of the loop: stations whose maximum is above max_alt
\* or below min_alt are skipped
SkippedStation_never(alt, min_alt, max_alt) == FALSE
SkippedStation(alt, min_alt, max_alt) == np_max(alt) > max_alt \/ np_max(alt) < min_alt
\* times, reindexed: for every station that is not skipped, in order, the
\* three times around the date of its maximum
Window(alt, obs_length) ==
    <<DateOf(np_argmax(alt)) - obs_length, DateOf(np_argmax(alt)),
      DateOf(np_argmax(alt)) + obs_length>>
RECURSIVE Times(_, _, _, _)
Times(source_pos, obs_length, min_alt, max_alt) ==
    IF source_pos = <<>> THEN <<>>
    ELSE LET rest == Times(Tail(source_pos), obs_length, min_alt, max_alt)
         IN  IF SkippedStation(Head(source_pos), min_alt, max_alt) THEN rest
             ELSE <<Window(Head(source_pos), obs_length)>> \o rest
\* _time_delta(r1, r2) of two ranges <<start, mid, end>>
time_delta(r1, r2) ==
    LET latest_start == IF r1[1] >= r2[1] THEN r1[1] ELSE r2[1]
        earliest_end == IF r1[3] <= r2[3] THEN r1[3] ELSE r2[3]
        delta == earliest_end - latest_start
    IN  IF delta > 0 THEN delta ELSE 0
\* dt.sum(axis=0)[j]
RECURSIVE ColumnSum(_, _, _)
ColumnSum(times, j, n) ==
    IF n = 0 THEN 0 ELSE time_delta(times[n], times[j]) + ColumnSum(times, j, n - 1)
\* get_optimal_date of the object self: the result or the exception, and
\* the index np.argmax(dt.sum(axis=0)) that is printed
GetOptimalDate(self) ==
    LET times == Times(self.source_pos, self.obs_length, self.min_alt, self.max_alt)
        sums == [j \in 1..Len(times) |-> ColumnSum(times, j, Len(times))]
    IN  IF Len(times) = 0
        THEN [exc |-> "ValueError", ret |-> NoReturn, index |-> 0]
        ELSE [exc |-> None, ret |-> [type |-> "list", value |-> times[np_argmax(sums)]],
              index |-> np_argmax(sums)]

\* SourceVisibility(target, date, location, obs_length, frame, min_alt,
\* max_alt, print_optimal_date); source_pos stands for what _get_pos makes
\* of target, date and location.  A constructor that raises leaves no object.
SourceVisibility(source_pos, obs_length, min_alt, max_alt, print_optimal_date) ==
    /\ LET self == [type |-> "SourceVisibility", source_pos |-> source_pos,
                    obs_length |-> obs_length, min_alt |-> min_alt, max_alt |-> max_alt]
           r == GetOptimalDate(self)
       IN  IF min_alt > max_alt \/ min_alt < 0 \/ min_alt > 90 \/ max_alt < 0 \/ max_alt > 90
           THEN exc' = "ValueError" /\ log' = <<>> /\ visibility' = NoReturn
           ELSE IF r.exc # None
           THEN exc' = r.exc /\ log' = <<>> /\ visibility' = NoReturn
           ELSE /\ exc' = None /\ visibility' = self
                /\ log' = IF print_optimal_date THEN <<<<"print", r.index - 1, r.ret.value>>>>
                          ELSE <<>>
    /\ ret' = NoReturn
    /\ called' = <<"SourceVisibility", source_pos, obs_length, min_alt, max_alt>>
    /\ UNCHANGED <<gridder, fs, layout, meas, wsclean>>

get_optimal_date(print_result) ==
    /\ visibility # NoReturn
    /\ LET r == GetOptimalDate(visibility)
       IN  /\ exc' = r.exc /\ ret' = r.ret
           /\ log' = IF print_result /\ r.exc = None
                     THEN <<<<"print", r.index - 1, r.ret.value>>>> ELSE <<>>
    /\ called' = <<"get_optimal_date", print_result>>
    /\ UNCHANGED <<gridder, fs, layout, meas, wsclean, visibility>>

\* the altitudes of one station: the maximum at one date and ten degrees
\* less at the others, or the same altitude at every date
Curve(idx, maximum) == [k \in 1..Dates |-> IF k = idx THEN maximum ELSE maximum - 10]
Curves == {Curve(1, 50), Curve(2, 50), Curve(2, 88), [k \in 1..Dates |-> 10]}
MaxTelescopes == 3
SourcePositions == UNION {[1..n -> Curves] : n \in 1..MaxTelescopes}
\* obs_length, min_alt and max_alt
Observations == {<<2, 15, 85>>, <<4, 15, 90>>, <<2, 85, 15>>}

InitVisibility ==
    /\ fits = NoFile /\ ms = NoDir /\ CASA_AVAIL = FALSE
    /\ NoObject
    /\ fs = None /\ layout = None /\ meas = None /\ wsclean = None
    /\ ret = NoReturn /\ called = <<>> /\ log = <<>>
    /\ visibility = NoReturn
NextVisibility ==
    \/ \E source_pos \in SourcePositions, obs \in Observations :
          SourceVisibility(source_pos, obs[1], obs[2], obs[3], obs[1] = 4)
    \/ \E print_result \in BOOLEAN : get_optimal_date(print_result)
SpecVisibility == InitVisibility /\ [][NextVisibility]_vars

(* ------------------------------- claims ------------------------------- *)
Ready == state = "ready"
Cells == Idx(img_size)
\* the cell size delta = 1/fov
Delta == Inverse(fov)
\* the index that the shift before the transform gives to cell i, and the
\* index of the negated frequency
Shifted(i) == (i + (img_size \div 2)) % img_size
CellOf(x) == (x - (img_size \div 2)) % img_size
Minus(x) == (img_size - x) % img_size
\* sample k of the mirrored set lies in cell (i, j): bins are half-open,
\* the last one is closed
InBin(x, i) ==
    /\ bins[i + 1] <= x
    /\ \/ x < bins[i + 2]
       \/ i = Len(bins) - 2 /\ x = bins[i + 2]
Members(i, j) ==
    {k \in 1..Len(samps[1]) : InBin(samps[1][k], i) /\ InBin(samps[2][k], j)}
RECURSIVE SumOver(_, _)
SumOver(S, w) ==
    IF S = {} THEN 0
    ELSE LET k == CHOOSE k \in S : TRUE IN w[k] + SumOver(S \ {k}, w)
ZeroArray == [i \in Cells |-> [j \in Cells |-> Zero]]
AllZeroInput == \A k \in 1..Len(stokes_i) : stokes_i[k] = [re |-> 0, im |-> 0]
Entry(k) == <<samps[1][k], samps[2][k], samps[3][k], samps[4][k]>>

\* C1: the mirrored sample set of n input samples has 2n entries: for
\* every input sample its conjugate at the negated baseline
\* (-u, -v, Re, -Im) and the sample itself (u, v, Re, Im), nothing else.
C1_Mirrored ==
    Ready =>
        LET n == Len(u)
        IN  /\ \A r \in 1..4 : Len(samps[r]) = 2 * n
            /\ \A k \in 1..n :
                /\ Entry(k) = <<-u[k], -v[k], stokes_i[k].re, -stokes_i[k].im>>
                /\ Entry(n + k) = <<u[k], v[k], stokes_i[k].re, stokes_i[k].im>>
C1_Witness ==
    /\ Ready
    /\ Len(u) = 2
    /\ u[1] # 0 /\ stokes_i[1].im # 0 /\ stokes_i[2].im # stokes_i[1].im

\* C2: the gridded visibility G = mask_real + i * mask_imag is Hermitian
\* about the zero-frequency cell, G(-k) = conj(G(k)) with the indices taken
\* modulo N after the shift, and the imaginary part of dirty_img_cmplx is
\* zero everywhere.
C2_Hermitian ==
    Ready =>
        LET G(x, y) == Cplx(mask_real[CellOf(x)][CellOf(y)],
                            mask_imag[CellOf(x)][CellOf(y)])
        IN  /\ \A x \in Cells, y \in Cells : G(Minus(x), Minus(y)) = Conj(G(x, y))
            /\ \A x \in Cells, y \in Cells : dirty_img_cmplx[x][y].im = <<0, 0>>

C4_ZeroIsEdge ==
    Ready /\ img_size % 2 = 0 =>
        /\ \E k \in 1..Len(bins) : bins[k] = 0
        /\ \A k \in 1..(Len(bins) - 1) : bins[k] + bins[k + 1] # 0
\* C4: for even N the coordinate 0 is the centre of cell N/2 (the cell the
\* shift makes the zero frequency) and is not a bin edge: the edges are
\* the odd multiples of delta/2.
C4_ZeroIsCentre ==
    Ready /\ img_size % 2 = 0 =>
        /\ bins[(img_size \div 2) + 1] + bins[(img_size \div 2) + 2] = 0
        /\ Shifted(img_size \div 2) = 0
        /\ \A k \in 1..Len(bins) : bins[k] # 0 /\ (2 * bins[k]) % (2 * Delta) = Delta
C4_Witness == Ready /\ img_size = 2 /\ fov = <<1, 2>> /\ bins = <<-3, -1, 1>>

\* C5: after the zero replacement every cell of the coverage mask is >= 1,
\* for any sample set, the empty one included, so that no division of
\* mask_real and mask_imag by mask is a division by zero.
C5_MaskPositive ==
    Ready =>
        \A i \in Cells, j \in Cells :
            /\ mask[i][j] >= 1
            /\ mask_real[i][j] # NaN
            /\ mask_imag[i][j] # NaN
C5_Witness ==
    /\ Ready /\ img_size = 4 /\ Len(u) = 0
    /\ \A i \in Cells, j \in Cells : mask[i][j] = 1

\* C6: mask_real and mask_imag of a cell are the arithmetic means of the
\* real and imaginary parts of the mirrored samples that fall in the cell,
\* and exactly 0 for a cell in which none falls.
C6_CellMean ==
    Ready =>
        \A i \in Cells, j \in Cells :
            LET S == Members(i, j)
            IN  IF S = {}
                THEN mask_real[i][j] = Zero /\ mask_imag[i][j] = Zero
                ELSE /\ mask_real[i][j] # NaN /\ mask_imag[i][j] # NaN
                     /\ mask_real[i][j][2] = 0 /\ mask_imag[i][j][2] = 0
                     /\ mask_real[i][j][1] * Cardinality(S) = SumOver(S, samps[3]) * Q
                     /\ mask_imag[i][j][1] * Cardinality(S) = SumOver(S, samps[4]) * Q
C6_Witness ==
    /\ Ready
    /\ \E i \in Cells, j \in Cells :
        /\ Cardinality(Members(i, j)) = 2
        /\ 2 * mask_real[i][j][1] = Q
        /\ 2 * mask_imag[i][j][1] = -Q

\* C7 as stated: for an all-zero sample set mask, mask_real, mask_imag and
\* the dirty image are all the all-zero (N, N) array.
C7_AllZeroArrays ==
    Ready /\ AllZeroInput =>
        /\ mask = [i \in Cells |-> [j \in Cells |-> 0]]
        /\ mask_real = ZeroArray
        /\ mask_imag = ZeroArray
        /\ dirty_img = ZeroArray
\* C7: for an all-zero sample set mask_real, mask_imag and the dirty image
\* are the all-zero (N, N) array; mask is not: every cell of it holds the
\* number of mirrored samples in the cell, and 1 where there is none.
C7_AllZero ==
    Ready /\ AllZeroInput =>
        /\ mask_real = ZeroArray
        /\ mask_imag = ZeroArray
        /\ dirty_img = ZeroArray
        /\ dirty_img_cmplx = [i \in Cells |-> [j \in Cells |-> Cplx(Zero, Zero)]]
        /\ \A i \in Cells, j \in Cells :
              mask[i][j] = IF Members(i, j) = {} THEN 1 ELSE Cardinality(Members(i, j))
C7_Witness ==
    /\ Ready /\ AllZeroInput /\ Len(u) = 2 /\ img_size = 4
    /\ \E i \in Cells, j \in Cells : mask[i][j] = 2

C9_Orientation ==
    Ready =>
        \E axis \in {"rows", "cols"} :
            LET Rev(A) == IF axis = "rows" THEN FlipRows(A, img_size)
                          ELSE FlipCols(A, img_size)
                abs == [x \in Cells |-> [y \in Cells |-> AbsSq(dirty_img_cmplx[x][y])]]
            IN  /\ dirty_img = Rev(Real(dirty_img_cmplx, img_size))
                /\ \A k \in 1..Len(shown) :
                      shown[k].call = "plot_dirty_image" =>
                          shown[k].img \in { Rev(Real(dirty_img_cmplx, img_size)),
                                             Rev(Imag(dirty_img_cmplx, img_size)),
                                             Rev(abs) }

\* C10: once constructed, no plotting call (plot, plot_ungridded_uv,
\* plot_mask, plot_mask_absolute, plot_mask_phase, plot_dirty_image in any
\* mode), in any order and any number of times, changes img_size, fov,
\* freq, u, v, mask, mask_real, mask_imag, dirty_img_cmplx or dirty_img.
C10_Immutable ==
    [][Ready =>
         <<img_size, fov, freq, u, v, mask, mask_real, mask_imag,
           dirty_img_cmplx, dirty_img>>' =
         <<img_size, fov, freq, u, v, mask, mask_real, mask_imag,
           dirty_img_cmplx, dirty_img>>]_vars
C10_Witness ==
    /\ Ready
    /\ Len(shown) = 1 /\ shown[1].call = "plot_dirty_image"
    /\ shown[1].img = dirty_img
    /\ \E x \in Cells, y \in Cells : Negative(dirty_img[x][y])

\* C11: gridding an empty sample list raises nothing: the histograms of
\* the (empty) mirrored set over the fixed bins are all-zero, mask_real and
\* mask_imag are the all-zero (N, N) array and so is the dirty image.
C11_EmptyInput ==
    state # "new" /\ fits # NoFile /\ Len(fits.UU) = 0 =>
        /\ Ready /\ exc = None
        /\ Len(samps[1]) = 0
        /\ \A i \in Cells, j \in Cells : Members(i, j) = {}
        /\ histogram2d(samps[1], samps[2], bins, samps[3]) =
               [i \in Cells |-> [j \in Cells |-> 0]]
        /\ mask_real = ZeroArray
        /\ mask_imag = ZeroArray
        /\ dirty_img = ZeroArray
C11_Witness ==
    /\ Ready /\ Len(stokes_i) = 0 /\ img_size = 3 /\ exc = None
    /\ dirty_img[2][2] = Zero /\ mask_imag[0][1] = Zero

C14_FailFast ==
    [][LET NoGridder == state' = "new" /\ UNCHANGED attrs
       IN  /\ fits = NoFile /\ (\E N \in ImgSizes, fv \in Fovs : from_fits(N, fv))
                  => exc' = "FileNotFoundError" /\ NoGridder
           /\ \A ms_path \in MsPaths, N \in ImgSizes, fv \in Fovs,
                 desc_id \in DescIds \cup {NoDescId} :
                  /\ ~CASA_AVAIL /\ from_ms(ms_path, N, fv, desc_id)
                         => exc' = "ModuleNotFoundError" /\ NoGridder
                  /\ CASA_AVAIL /\ ms_path # "" /\ ms = NoDir
                         /\ from_ms(ms_path, N, fv, desc_id)
                         => exc' = "NotADirectoryError" /\ NoGridder
      ]_vars
C14_Witness ==
    /\ exc = "NotADirectoryError" /\ CASA_AVAIL /\ ms = NoDir
    /\ state = "new" /\ dirty_img = None

\* C15: Layout.save on an existing path with overwrite=False raises
\* FileExistsError and leaves every file as it was; with overwrite=True a
\* save that succeeds leaves at the path the header of the format and one
\* row per station, in the order of the layout, whatever the file held.
C15_Overwrite ==
    [][LET path == called'[2]
           fmt == called'[3]
           overwrite == called'[4]
           rel_to_site == called'[5]
           Saved == /\ Len(called') = 5 /\ called'[1] = "save" /\ fs[path] # Absent
                    /\ save(path, fmt, overwrite, rel_to_site)
       IN  /\ Saved /\ ~overwrite => exc' = "FileExistsError" /\ fs' = fs
           /\ Saved /\ overwrite /\ exc' = None
                  => /\ fs'[path] # Absent
                     /\ fs'[path].head[Len(fs'[path].head)] =
                            (IF fmt = "casa" THEN "# X Y Z dish_dia station_name\n"
                             ELSE "station_name X Y Z dish_dia el_low el_high SEFD altitude\n")
                     /\ Len(fs'[path].head) =
                            (IF fmt = "casa" /\ rel_to_site \notin {None, ""} THEN 3 ELSE 1)
                     /\ Len(fs'[path].rows) = Len(layout.stations)
                     /\ \A k \in 1..Len(layout.stations) :
                            /\ fs'[path].rows[k].station_name = layout.stations[k].station_name
                            /\ fs'[path].rows[k].dish_dia = layout.stations[k].dish_dia
                     /\ \A p \in Paths \ {path} : fs'[p] = fs[p]
      ]_vars
\* a save without overwrite met the older file and left it
C15_Witness ==
    /\ Len(called) = 5 /\ called[1] = "save" /\ called[4] = FALSE
    /\ exc = "FileExistsError"
    /\ fs["layout.cfg"] = OldContent
    /\ Len(layout.stations) = MaxStations

\* C13: every temporary file that Layout.as_relative or Layout.as_absolute
\* creates is gone when the call ends, whether it returns or raises (in the
\* save, in the re-read): no temp_cfg_* file that was not there before the
\* call is there after it.
C13_TempRemoved ==
    [][called' # <<>> /\ called'[1] \in {"as_relative", "as_absolute"}
           /\ ((\E rel_to_site \in SiteArgs : as_relative(rel_to_site)) \/ as_absolute)
           => \A p \in TempPaths : fs[p] = Absent => fs'[p] = Absent
      ]_vars

\* C16: Layout.save with fmt = "casa" ignores rel_to_site: the call does
\* what the call with rel_to_site = None does, writes what it writes, and
\* raises nothing that it does not raise.
C16_SiteIgnored ==
    [][LET path == called'[2]
           fmt == called'[3]
           overwrite == called'[4]
           rel_to_site == called'[5]
           plain == Save(fs, layout, path, fmt, overwrite, None)
       IN  /\ Len(called') = 5 /\ called'[1] = "save" /\ fmt = "casa"
           /\ save(path, fmt, overwrite, rel_to_site)
           => fs' = plain.fs /\ exc' = plain.exc
      ]_vars

\* C17: Layout.get_station(name) returns the rows of the station for every
\* name that is the station_name of a station of the layout, and raises
\* KeyError exactly for the names that no station has.
C17_StationFound ==
    [][LET name == called'[2]
           Has == \E k \in 1..Len(layout.stations) :
                      name[1] = "str" /\ layout.stations[k].station_name = name[2]
       IN  /\ Len(called') = 2 /\ called'[1] = "get_station"
           /\ get_station(name)
           => /\ exc' = "KeyError" <=> ~Has
              /\ Has => /\ ret'.type = "DataFrame"
                        /\ Len(ret'.rows) = 1
                        /\ ret'.rows[1].station_name = name[2]
      ]_vars

\* C18: as_relative(site) for a site that EarthLocation.of_site knows, and
\* as_absolute() of a relative layout, return a Layout of the same number
\* of stations with the same names in the same order and the same
\* dish_dia, el_low, el_high, sefd and altitude, whose cfg_path is that of
\* the original, and leave the original as it was.
C18_Copy ==
    [][/\ called' # <<>>
       /\ \/ /\ called'[1] = "as_relative" /\ called'[2] \in KnownSites
             /\ as_relative(called'[2])
          \/ /\ called'[1] = "as_absolute" /\ is_relative(layout)
             /\ as_absolute
       => /\ exc' = None
          /\ ret'.type = "Layout"
          /\ ret'.value.cfg_path = layout.cfg_path
          /\ Len(ret'.value.stations) = Len(layout.stations)
          /\ \A k \in 1..Len(layout.stations) :
                 LET new == ret'.value.stations[k]
                     old == layout.stations[k]
                 IN  /\ new.station_name = old.station_name
                     /\ new.dish_dia = old.dish_dia
                     /\ new.el_low = old.el_low /\ new.el_high = old.el_high
                     /\ new.sefd = old.sefd /\ new.altitude = old.altitude
          /\ layout' = layout
      ]_vars

\* a call of save_as_ms or save_as_fits is the step
Saving ==
    /\ called' # <<>> /\ called'[1] \in {"save_as_ms", "save_as_fits"}
    /\ \E ok \in BOOLEAN :
           \/ called'[1] = "save_as_ms" /\ save_as_ms(called'[2], called'[3], ok)
           \/ called'[1] = "save_as_fits" /\ save_as_fits(called'[2], called'[3], ok)
\* the calls of casatools' conversions
Conversions == {"fromfits", "tofits"}

\* C19 as stated: with overwrite=False and anything at the target,
\* save_as_ms and save_as_fits only warn, change nothing and do not call
\* casatools; with overwrite=True what is at the target is removed and
\* then the conversion is called; with nothing at the target the
\* conversion is called once.
C19_OverwriteGuard ==
    [][Saving =>
           LET path == called'[2]
               overwrite == called'[3]
           IN  /\ fs[path] # Absent /\ ~overwrite
                      => log' = <<<<"warn">>>> /\ fs' = fs /\ exc' = None
               /\ fs[path] # Absent /\ overwrite
                      => /\ Len(log') = 2
                         /\ log'[1][1] \in {"rmtree", "unlink"}
                         /\ log'[2][1] \in Conversions
               /\ fs[path] = Absent
                      => Len(log') = 1 /\ log'[1][1] \in Conversions
      ]_vars

\* C19, amended: the same, where "at the target" is any entry for
\* save_as_ms and a regular file for save_as_fits, where what overwrite=True
\* removes is a directory for save_as_ms and a regular file for
\* save_as_fits, and where the conversion is called for a Measurement that
\* has the source of the conversion (from_fits for save_as_ms, from_ms for
\* save_as_fits).
C19_GuardedConversion ==
    [][Saving =>
           LET path == called'[2]
               overwrite == called'[3]
               to_ms == called'[1] = "save_as_ms"
               Exists == IF to_ms THEN fs[path] # Absent ELSE IsFile(fs[path])
               Removable == IF to_ms THEN IsDir(fs[path]) ELSE IsFile(fs[path])
               Source == IF to_ms THEN "_fits_path" \in DOMAIN meas
                         ELSE "_ms_path" \in DOMAIN meas
           IN  /\ Exists /\ ~overwrite
                      => log' = <<<<"warn">>>> /\ fs' = fs /\ exc' = None
               /\ Removable /\ overwrite /\ Source
                      => /\ Len(log') = 2
                         /\ log'[1] = <<(IF to_ms THEN "rmtree" ELSE "unlink"), path>>
                         /\ log'[2][1] = (IF to_ms THEN "fromfits" ELSE "tofits")
                         /\ log'[2][2] = path
               /\ fs[path] = Absent /\ Source
                      => /\ Len(log') = 1
                         /\ log'[1][1] = (IF to_ms THEN "fromfits" ELSE "tofits")
                         /\ log'[1][2] = path
      ]_vars
\* save_as_ms without overwrite met a directory, warned and left it
C19_Witness ==
    /\ Len(called) = 3 /\ called[1] = "save_as_ms" /\ called[3] = FALSE
    /\ log = <<<<"warn">>>>
    /\ fs[called[2]] = OldDir
    /\ exc = None

\* C20: WSClean.__init__ raises ValueError when clean_config is not a dict,
\* a str or a Path (None, the default, included), whatever is at the path
\* of the measurement set; it raises OSError when ms is no directory, and
\* when clean_config is a str or Path at which there is no file; in all
\* three cases no file is written, wsclean is not run and no object is
\* made.
C20_ValidateFirst ==
    [][LET msfile == called'[2]
           clean_config == called'[3]
           Typed == clean_config.type \in {"dict", "str", "Path"}
           Nothing == fs' = fs /\ log' = <<>> /\ ret' = NoReturn
       IN  /\ Len(called') = 5 /\ called'[1] = "WSClean"
           /\ WSClean(msfile, clean_config, called'[4], called'[5])
           => /\ ~Typed => exc' = "ValueError" /\ Nothing
              /\ Typed /\ ~IsDir(fs[msfile]) => exc' = "OSError" /\ Nothing
              /\ Typed /\ IsDir(fs[msfile]) /\ clean_config.type \in {"str", "Path"}
                     /\ ~IsFile(fs[clean_config.value])
                     => exc' = "OSError" /\ Nothing
      ]_vars
\* the default clean_config met a missing measurement set: ValueError
C20_Witness ==
    /\ Len(called) = 5 /\ called[1] = "WSClean"
    /\ called[3] = PyNone /\ ~IsDir(fs[called[2]])
    /\ called[4] = TRUE /\ called[5] = PyBool(TRUE)
    /\ exc = "ValueError" /\ log = <<>> /\ ret = NoReturn

C27_Repeatable ==
    [][called = <<"clean_image">> /\ clean_image => log' = log]_vars

\* the step is a call of preprocess that wrote the processed image
Preprocessed ==
    /\ Len(called') = 3 /\ called'[1] = "preprocess"
    /\ exc' = None /\ log' = Append(log, "quiet")
\* the path the call names for the processed image
Target(fits_path, args) ==
    IF args.output_path = None THEN ProcessedPath(fits_path) ELSE args.output_path
\* the limits of the crop are four integers that span a square
SquareIntegerCrop(crop) ==
    /\ \A i \in 1..2, j \in 1..2 : crop[i][j] # <<>>
    /\ crop[1][2][1] - crop[1][1][1] = crop[2][2][1] - crop[2][1][1]
    /\ crop[1][2][1] > crop[1][1][1]

\* C23: preprocess with a square integer crop ([x0, x1], [y0, y1]) writes an
\* image of shape (y1 - y0, x1 - x0), and when the brightest pixel of the
\* original lies inside the crop, get_maximum_info on the result reports
\* the same maximum, the pixel position shifted by (x0, y0) and the same sky
\* coordinate.  Stated for flux_unit=None and clean=False, where no code
\* outside the repository takes part, and for a brightest pixel that lies
\* between the limits both in the image as get_maximum_info orients it and
\* in the image as ra_incr_right orients it, and for limits within the image;
\* right ascensions that differ by a full turn are the same.
C23_CropCompensated ==
    [][/\ Preprocessed
       /\ SquareIntegerCrop(called'[3].crop)
       /\ called'[3].flux_unit = None /\ ~called'[3].clean
       /\ called'[3].crop[1][2][1] <= Shape(fs[called'[2]].data)[2]
       /\ called'[3].crop[2][2][1] <= Shape(fs[called'[2]].data)[1]
       => LET args == called'[3]
              x0 == args.crop[1][1][1]
              x1 == args.crop[1][2][1]
              y0 == args.crop[2][1][1]
              y1 == args.crop[2][2][1]
              original == get_maximum_info(fs[called'[2]])
              result == fs'[Target(called'[2], args)]
              oriented == argmax(get_image(fs[called'[2]], args.ra_incr_right,
                                           None, FALSE, 1).image)
              inside == /\ x0 <= original.brightest_pixels[1]
                        /\ original.brightest_pixels[1] < x1
                        /\ y0 <= original.brightest_pixels[2]
                        /\ original.brightest_pixels[2] < y1
                        /\ x0 <= oriented[2] /\ oriented[2] < x1
          IN  /\ Shape(result.data) = <<y1 - y0, x1 - x0>>
              /\ inside =>
                    /\ get_maximum_info(result).max = original.max
                    /\ get_maximum_info(result).brightest_pixels
                         = <<original.brightest_pixels[1] - x0,
                             original.brightest_pixels[2] - y0>>
                    /\ get_maximum_info(result).brightest_unit[1] % 360
                         = original.brightest_unit[1] % 360
                    /\ get_maximum_info(result).brightest_unit[2] = original.brightest_unit[2]
      ]_vars

\* C24: preprocess with flux_unit=None keeps the unit of the original file:
\* the BUNIT it writes is the BUNIT it read, and get_metadata()["flux_unit"]
\* of the Fiducial it returns is that of the original.
C24_UnitKept ==
    [][/\ Preprocessed
       /\ called'[3].flux_unit = None
       => /\ fs'[ret'._fits_path].header.BUNIT = fs[called'[2]].header.BUNIT
          /\ get_metadata(fs'[ret'._fits_path]).flux_unit
               = get_metadata(fs[called'[2]]).flux_unit
      ]_vars

\* the step is a call of preprocess on a FITS file that can be read
PreprocessCall ==
    /\ Len(called') = 3 /\ called'[1] = "preprocess"
    /\ IsFile(fs[called'[2]])
\* the call finds a regular file at the target and may not overwrite it
Skipped == IsFile(fs[Target(called'[2], called'[3])]) /\ ~called'[3].overwrite
\* the limits of the crop, None replaced, do not span a square
NonSquare ==
    LET crop == Limits(called'[3].crop, get_metadata(fs[called'[2]]).img_size)
    IN  crop[1][2] - crop[1][1] # crop[2][2] - crop[2][1]
\* the call warns, changes no file and returns the Fiducial of the target
SkipsProcessing ==
    /\ fs' = fs /\ exc' = None
    /\ log' = Append(log, "UserWarning")
    /\ ret' = Fiducial(Target(called'[2], called'[3]))
\* something at the target is never replaced without overwrite=True
KeepsTarget ==
    fs[Target(called'[2], called'[3])] # Absent /\ ~called'[3].overwrite => fs' = fs

Px2radecCalled == Len(called) = 7 /\ called[1] = "px2radec"
\* the numbers of ticks asked for on the two axes
Asked == IF Len(called[5]) = 2 THEN called[5] ELSE <<called[5][1], called[5][1]>>
\* the limits of the claim, in half pixels: (0, NAXIS) by default, else
\* (ref - lim[0], ref + lim[1]) with ref = CRPIX - 1
ClaimedLim(lim, crpix, naxis) ==
    IF lim = <<>> THEN <<0, HalfPixels * naxis>>
    ELSE <<(crpix - HalfPixels) - HalfPixels * lim[1], (crpix - HalfPixels) + HalfPixels * lim[2]>>
\* the factor of the unit over the denominator of CDELT2, in lowest terms:
\* 3.6e6 / 128 for mas and 3.6e3 / 128 for as
Scale(unit) == IF PREFIXES[unit][2] = "mas" THEN <<28125, 1>> ELSE <<225, 8>>
\* the labels of the claim for the ticks of one axis: "0.00" at the first
\* tick at or beyond the reference pixel, elsewhere the offset from that tick
\* times CDELT2 times the unit factor with two decimals
ClaimedLabels(ticks, labels, crpix) ==
    /\ Len(labels) = Len(ticks)
    /\ \E z \in 1..Len(ticks) :
          /\ HalfPixels * ticks[z] >= crpix - HalfPixels
          /\ \A j \in 1..(z - 1) : HalfPixels * ticks[j] < crpix - HalfPixels
          /\ labels[z] = ZeroLabel
          /\ \A k \in 1..Len(ticks) :
                ticks[k] # ticks[z] =>
                    labels[k] = Format((ticks[k] - ticks[z]) * called[2].CDELT2
                                           * Scale(called[6])[1],
                                       Scale(called[6])[2])
\* an unknown unit raises ValueError, returns nothing and leaves the axis alone
UnknownUnit ==
    called[6] \notin DOMAIN PREFIXES => exc = "ValueError" /\ ret = NoReturn /\ log = <<>>
\* what the claim says of limits, labels and of an int num_ticks when the
\* call returns
ReturnedLimitsAndLabels ==
    /\ ret.xlim = ClaimedLim(called[3], called[2].CRPIX1, called[2].NAXIS1)
    /\ ret.ylim = ClaimedLim(called[4], called[2].CRPIX2, called[2].NAXIS2)
    /\ Len(ret.xticks) = Asked[1] /\ Len(ret.yticks) = Asked[2]
    /\ ClaimedLabels(ret.xticks, ret.xticklabels, called[2].CRPIX1)
    /\ ClaimedLabels(ret.yticks, ret.yticklabels, called[2].CRPIX2)
    /\ ret = Px2radec(called[2], called[3], called[4], Asked, called[6], called[7]).ret
    /\ log = IF called[7] THEN <<<<"ax.set", ret, PREFIXES[called[6]][2]>>>> ELSE <<>>

\* C22 as stated: the ticks that px2radec returns are num_ticks integers
\* whose first and last are the limits, with the limits, labels and the
\* treatment of an int num_ticks as described; an unknown unit raises
\* ValueError before anything is computed or any axis is touched.
C22_TicksSpanLimits ==
    Px2radecCalled =>
        /\ UnknownUnit
        /\ exc = None =>
              /\ ReturnedLimitsAndLabels
              /\ HalfPixels * ret.xticks[1] = ret.xlim[1]
              /\ HalfPixels * ret.xticks[Len(ret.xticks)] = ret.xlim[2]
              /\ HalfPixels * ret.yticks[1] = ret.ylim[1]
              /\ HalfPixels * ret.yticks[Len(ret.yticks)] = ret.ylim[2]

\* the ticks of one axis start at the first limit cut to an integer and,
\* when there are two or more, end at the second limit cut to an integer
TruncatedSpan(ticks, lim) ==
    /\ ticks[1] = Trunc(lim[1], HalfPixels)
    /\ Len(ticks) >= 2 => ticks[Len(ticks)] = Trunc(lim[2], HalfPixels)
\* some tick of the axis lies at or beyond the reference pixel
Reaches(lim, num, crpix) ==
    \E k \in 1..num : HalfPixels * linspace(lim[1], lim[2], num)[k] >= crpix - HalfPixels

\* C22, amended: for a known unit px2radec returns exactly when each axis has
\* a tick at or beyond the reference pixel and raises IndexError otherwise
\* (always for num_ticks = 0); the ticks it returns are num_ticks integers
\* that start at the first limit cut to an integer and, for two or more
\* ticks, end at the second limit cut to an integer; limits, labels and the
\* treatment of an int num_ticks are as described; an unknown unit raises
\* ValueError before anything is computed or any axis is touched.
C22_TruncatedTicks ==
    Px2radecCalled =>
        /\ UnknownUnit
        /\ called[6] \in DOMAIN PREFIXES =>
              LET xlim == ClaimedLim(called[3], called[2].CRPIX1, called[2].NAXIS1)
                  ylim == ClaimedLim(called[4], called[2].CRPIX2, called[2].NAXIS2)
              IN  IF /\ Reaches(xlim, Asked[1], called[2].CRPIX1)
                     /\ Reaches(ylim, Asked[2], called[2].CRPIX2)
                  THEN /\ exc = None
                       /\ ReturnedLimitsAndLabels
                       /\ TruncatedSpan(ret.xticks, ret.xlim)
                       /\ TruncatedSpan(ret.yticks, ret.ylim)
                  ELSE exc = "IndexError" /\ ret = NoReturn /\ log = <<>>

\* px2radec returned three ticks for limits of half a pixel and two and a
\* half pixels, set them on the axis, and 28.125 as was written as -28.12
C22_Witness ==
    /\ Px2radecCalled /\ exc = None
    /\ called[2] = PlotHeader(1, 5) /\ called[3] = <<1, 1>> /\ called[5] = <<MaxTicks>>
    /\ called[6] = "as" /\ called[7]
    /\ ret.xlim = <<1, 5>>
    /\ ret.xticks[1] = 0 /\ ret.xticks[Len(ret.xticks)] = 2
    /\ \E k \in 1..Len(ret.xticklabels) :
          ret.xticklabels[k] = [negative |-> TRUE, hundredths |-> 2812]
    /\ Len(log) = 1

\* the largest altitude of station i of the object self lies within
\* [min_alt, max_alt]
Qualifies(self, i) ==
    \E k \in 1..Dates :
        /\ \A j \in 1..Dates : self.source_pos[i][j] <= self.source_pos[i][k]
        /\ self.min_alt <= self.source_pos[i][k]
        /\ self.source_pos[i][k] <= self.max_alt
\* the time of the peak altitude of station i: the first date of the largest
\* altitude
PeakTime(self, i) ==
    DateOf(CHOOSE k \in 1..Dates :
              /\ \A j \in 1..Dates : self.source_pos[i][j] <= self.source_pos[i][k]
              /\ \A j \in 1..(k - 1) : self.source_pos[i][j] < self.source_pos[i][k])
\* the overlap of the observation windows of stations i and j
Overlap(self, i, j) ==
    LET from == IF PeakTime(self, i) >= PeakTime(self, j)
                THEN PeakTime(self, i) ELSE PeakTime(self, j)
        to == IF PeakTime(self, i) <= PeakTime(self, j)
              THEN PeakTime(self, i) ELSE PeakTime(self, j)
        common == (to + self.obs_length) - (from - self.obs_length)
    IN  IF common > 0 THEN common ELSE 0
\* the sum of the overlaps of station i with the qualifying stations 1..n
RECURSIVE OverlapSum(_, _, _)
OverlapSum(self, i, n) ==
    IF n = 0 THEN 0
    ELSE (IF Qualifies(self, n) THEN Overlap(self, i, n) ELSE 0) + OverlapSum(self, i, n - 1)
\* what get_optimal_date of self has to return
IsOptimalDate(self, result) ==
    \E i \in 1..Len(self.source_pos) :
        /\ Qualifies(self, i)
        /\ result = <<PeakTime(self, i) - self.obs_length, PeakTime(self, i),
                      PeakTime(self, i) + self.obs_length>>
        /\ \A j \in 1..Len(self.source_pos) :
              Qualifies(self, j) =>
                  OverlapSum(self, j, Len(self.source_pos))
                      <= OverlapSum(self, i, Len(self.source_pos))
\* the object that the constructor arguments of the last call describe
Constructed ==
    [type |-> "SourceVisibility", source_pos |-> called[2], obs_length |-> called[3],
     min_alt |-> called[4], max_alt |-> called[5]]

\* C21: get_optimal_date returns the three timestamps t - obs_length/2, t,
\* t + obs_length/2 of a station whose peak altitude lies within
\* [min_alt, max_alt] and whose sum of window overlaps with the qualifying
\* stations is largest; stations outside the range are never selected and
\* add nothing to the sums; when no station qualifies the call, and the
\* constructor that makes it, raise ValueError.
C21_OptimalDate ==
    /\ (Len(called) = 2 /\ called[1] = "get_optimal_date") =>
          IF \E i \in 1..Len(visibility.source_pos) : Qualifies(visibility, i)
          THEN exc = None /\ ret.type = "list" /\ IsOptimalDate(visibility, ret.value)
          ELSE exc = "ValueError" /\ ret = NoReturn
    /\ (Len(called) = 5 /\ called[1] = "SourceVisibility" /\ called[4] <= called[5]) =>
          IF \E i \in 1..Len(called[2]) : Qualifies(Constructed, i)
          THEN /\ exc = None /\ visibility = Constructed
               /\ log # <<>> => IsOptimalDate(Constructed, log[1][3])
          ELSE exc = "ValueError" /\ visibility = NoReturn

\* of three stations the two whose peak of 88 degrees is above max_alt were
\* left out: the date returned is the peak of the first station, which the
\* two others would have outvoted
C21_Witness ==
    /\ Len(called) = 2 /\ called[1] = "get_optimal_date" /\ exc = None
    /\ visibility.source_pos = <<Curve(1, 50), Curve(2, 88), Curve(2, 88)>>
    /\ visibility.obs_length = 2 /\ visibility.max_alt = 85
    /\ ret.value = <<0, 2, 4>>

====
